---------------------------- MODULE Spec2Model ----------------------------
(***************************************************************************)
(* Streakly: recurring-task tracker with reminder scheduling.              *)
(*                                                                         *)
(* The model covers the React handlers of src/src/App.js, the two          *)
(* notification engines found in the repository                            *)
(*   - src/src/PushNotifications.js  (v3.8.1, LocalNotifications for       *)
(*     time-based tasks, main + grace reminder),                           *)
(*   - src/unnamed/part_000          (v3.8, native exact alarms with       *)
(*     defensive re-scheduling),                                           *)
(* and the native alarm bridge (ExactAlarmPlugin.java and the static       *)
(* ExactAlarmScheduler of src/unnamed/part_008).                           *)
(*                                                                         *)
(* Time is counted in minutes of local wall-clock time; a calendar date is *)
(* the day number within 2026 (1 = 2026-01-01; 0 and below are the days of  *)
(* 2025).  The clock only visits the minutes of SamplePoints on each day.  *)
(***************************************************************************)
EXTENDS Integers, Sequences, FiniteSets, TLC

VARIABLES
    now,            \* local wall clock, minutes since 2026-01-01 00:00 (day 1)
    tzWest,         \* the device's time zone: 1 and 3 when its UTC offset is
                    \* negative, else 0 and 2; 2 and 3 observe daylight saving
    running,        \* the app process (WebView) is alive
    tasks,          \* React state `tasks` = storage key 'tasks' (a list)
    taskStatuses,   \* React state `taskStatuses` = storage key 'taskStatuses'
    cap,            \* what the scheduling effect's closure captured: its tasks and
                    \* the keys of taskStatuses whose value is 'Yes'
    nextId,         \* source of fresh task ids (Date.now().toString())
    permission,     \* AlarmManager.canScheduleExactAlarms()
    alarms,         \* AlarmManager: pending exact alarms
    ln,             \* LocalNotifications: pending scheduled notifications
    flags,          \* window.storage: per-task per-day dedup flag keys
    lastScheduledDate, \* window.storage 'lastScheduledDate' (0 = absent)
    lastScheduledTime, \* window.storage 'lastScheduledTime' (minutes)
    lastCheck,      \* Preferences 'last_notification_check' (0 = absent)
    shown,          \* reminders delivered to the notification shade
    activeTasks,    \* the memoised list `activeTasks` (useMemo, deps [tasks])
    homepageTaskStreaks, \* the memoised streaks shown on the homepage (useMemo,
                    \* deps [activeTasks, taskStatuses])
    inflight        \* the invocations of triggerDailyNotificationCheck that are
                    \* suspended at an await, each with its position

vars == <<now, tzWest, running, tasks, taskStatuses, cap, nextId, permission,
          alarms, ln, flags, lastScheduledDate, lastScheduledTime, lastCheck,
          shown, activeTasks, homepageTaskStreaks, inflight>>

\* the memoised values of the homepage
memos == <<activeTasks, homepageTaskStreaks>>

---------------------------------------------------------------------------
(* Bounds of the model                                                     *)

FirstDay == 30          \* the model starts on 2026-01-30
NumDays == 2            \* number of calendar days the clock may visit
MaxTasks == 1           \* number of tasks ever created (ids 1..MaxTasks)

LastDay == FirstDay + NumDays - 1
TaskIds == 1..MaxTasks

(* Program constants                                                       *)

MinutesPerDay == 1440
MorningMinute == 480    \* 08:00
NightMinute == 1260     \* 21:00
WarnMinute == 1320      \* 22:00
CooldownMinutes == 60   \* 3600000 ms
GraceMinutes == 30      \* 30 * 60 * 1000 ms
AutoMarkMinute == 1439  \* 23:59
MainIdBase == 100
GraceIdBase == 200
MaxStreakWalk == 365    \* "for (let i = 0; i < 365; i++)"

\* minutes of the day the clock visits, and the target times a user may pick
SamplePoints == {0, 540, 1439}
TargetTimes == {540, 600}
Frequencies == {"Daily", "Alternate Days", "Weekly", "Monthly"}
StatusChoices == {"Yes", "No", "Partly"}

\* device time zones: 0 = at or east of UTC, 1 = west of UTC, both without
\* daylight saving; 2 and 3 = the same with daylight saving time
TzOffsets == {0}
Zones == {0, 1, 2, 3}

\* daylight saving time of 2026: west of UTC (United States rule) clocks go
\* forward one hour on 2026-03-08 and back on 2026-11-01, east of UTC
\* (European rule) forward on 2026-03-29 and back on 2026-10-25, each in the
\* small hours after local midnight
UsSpringForwardDay == 67
UsFallBackDay == 305
EuSpringForwardDay == 88
EuFallBackDay == 298
DstShiftMinutes == 60

NoDate == 0             \* endDate: null
NoTime == 0 - 1         \* targetTime: null

---------------------------------------------------------------------------
(* Calendar                                                                *)

MonthLengths == <<31, 28, 31, 30, 31, 30, 31, 31, 30, 31, 30, 31>>

RECURSIVE DayInMonth(_, _)
DayInMonth(d, m) ==
    IF m > 12 \/ d <= MonthLengths[m] THEN d
    ELSE DayInMonth(d - MonthLengths[m], m + 1)

DaysPerYear == 365      \* 2025 and 2026 are not leap years

\* Date.prototype.getDate() of the local midnight of day number d
getDate(d) == IF d < 1 THEN DayInMonth(d + DaysPerYear, 1) ELSE DayInMonth(d, 1)

DayOf(t) == t \div MinutesPerDay
MinuteOf(t) == t % MinutesPerDay
At(day, minute) == day * MinutesPerDay + minute

\* new Date().toLocaleDateString('en-CA') / formatDateYYYYMMDD(new Date())
getTodayString(t) == DayOf(t)
\* formatDateYYYYMMDD(new Date(Date.now() - 86400000))
getYesterdayString(t) == DayOf(t - MinutesPerDay)

\* new Date('YYYY-MM-DD') is midnight UTC of that date; setHours(0,0,0,0)
\* moves it to the local midnight of the local day that instant falls in,
\* which is the previous day when the device is west of UTC.
ParseLocalMidnight(date, west) == date - (west % 2)

\* minutes by which the local midnight of day d comes early because daylight
\* saving time is in force at that midnight
DstMinutes(d, west) ==
    IF \/ west = 3 /\ d > UsSpringForwardDay /\ d <= UsFallBackDay
       \/ west = 2 /\ d > EuSpringForwardDay /\ d <= EuFallBackDay
    THEN DstShiftMinutes ELSE 0

\* Math.floor((current - start) / (1000 * 60 * 60 * 24)) for the local
\* midnights of the days start <= current
DaysDiff(start, current, west) ==
    ((current - start) * MinutesPerDay
        - (DstMinutes(current, west) - DstMinutes(start, west))) \div MinutesPerDay


---------------------------------------------------------------------------
(* Occurrence evaluators.  `west` is the device's tzWest.  The results are  *)
(* JavaScript values, written "true", "false" and "null".                  *)

JSBool(b) == IF b THEN "true" ELSE "false"

\* App.js getNextOccurrence(startDate, frequency, currentDate)
getNextOccurrence(startDate, frequency, currentDate, west) ==
    LET start == ParseLocalMidnight(startDate, west)
        current == ParseLocalMidnight(currentDate, west)
        daysDiff == DaysDiff(start, current, west)
    IN  IF current < start THEN "null"
        ELSE CASE frequency = "Daily" -> "true"
               [] frequency = "Alternate Days" -> JSBool(daysDiff % 2 = 0 /\ current >= start)
               [] frequency = "Weekly" -> JSBool(daysDiff % 7 = 0)
               [] frequency = "Monthly" -> JSBool(getDate(start) = getDate(current))
               [] OTHER -> "false"

\* variant of isTaskValidForDate without the end-date test
isTaskValidForDate_NoEnd(task, date, west) ==
    LET checkDate == ParseLocalMidnight(date, west)
        startDate == ParseLocalMidnight(task.startDate, west)
    IN  IF checkDate < startDate THEN "false"
        ELSE getNextOccurrence(task.startDate, task.frequency, date, west)

\* variant of isTaskValidForDate whose end date is exclusive (">=" for ">")
isTaskValidForDate_EndExclusive(task, date, west) ==
    LET checkDate == ParseLocalMidnight(date, west)
        startDate == ParseLocalMidnight(task.startDate, west)
    IN  IF checkDate < startDate THEN "false"
        ELSE IF task.endDate # NoDate
                /\ checkDate >= ParseLocalMidnight(task.endDate, west) THEN "false"
        ELSE getNextOccurrence(task.startDate, task.frequency, date, west)

\* App.js isTaskValidForDate(task, date)
isTaskValidForDate(task, date, west) ==
    LET checkDate == ParseLocalMidnight(date, west)
        startDate == ParseLocalMidnight(task.startDate, west)
    IN  IF checkDate < startDate THEN "false"
        ELSE IF task.endDate # NoDate
                /\ checkDate > ParseLocalMidnight(task.endDate, west) THEN "false"
        ELSE getNextOccurrence(task.startDate, task.frequency, date, west)

\* isTaskValidForDate(task, date) of PushNotifications.js and of part_000
\* (the two files carry the same text)
PN_isTaskValidForDate(task, date, west) ==
    LET checkDate == ParseLocalMidnight(date, west)
        startDate == ParseLocalMidnight(task.startDate, west)
        start == ParseLocalMidnight(task.startDate, west)
        current == ParseLocalMidnight(date, west)
        daysDiff == DaysDiff(start, current, west)
    IN  IF checkDate < startDate THEN "false"
        ELSE IF task.endDate # NoDate
                /\ checkDate > ParseLocalMidnight(task.endDate, west) THEN "false"
        ELSE IF current < start THEN "null"
        ELSE CASE task.frequency = "Daily" -> "true"
               [] task.frequency = "Alternate Days" -> JSBool(daysDiff % 2 = 0 /\ current >= start)
               [] task.frequency = "Weekly" -> JSBool(daysDiff % 7 = 0)
               [] task.frequency = "Monthly" -> JSBool(getDate(start) = getDate(current))
               [] OTHER -> "false"

\* variant of the validTasks filter whose end date is exclusive (">=" for ">")
StatsValid_EndExclusive(task, dateString, west) ==
    LET checkDate == ParseLocalMidnight(dateString, west)
        startDate == ParseLocalMidnight(task.startDate, west)
        daysDiff == DaysDiff(startDate, checkDate, west)
    IN  IF checkDate < startDate THEN "false"
        ELSE IF task.endDate # NoDate
                /\ checkDate >= ParseLocalMidnight(task.endDate, west) THEN "false"
        ELSE CASE task.frequency = "Daily" -> "true"
               [] task.frequency = "Alternate Days" -> JSBool(daysDiff % 2 = 0)
               [] task.frequency = "Weekly" -> JSBool(daysDiff % 7 = 0)
               [] task.frequency = "Monthly" -> JSBool(getDate(startDate) = getDate(checkDate))
               [] OTHER -> "false"

\* the validTasks filter inside calculateTaskStats
StatsValid(task, dateString, west) ==
    LET checkDate == ParseLocalMidnight(dateString, west)
        startDate == ParseLocalMidnight(task.startDate, west)
        daysDiff == DaysDiff(startDate, checkDate, west)
    IN  IF checkDate < startDate THEN "false"
        ELSE IF task.endDate # NoDate
                /\ checkDate > ParseLocalMidnight(task.endDate, west) THEN "false"
        ELSE CASE task.frequency = "Daily" -> "true"
               [] task.frequency = "Alternate Days" -> JSBool(daysDiff % 2 = 0)
               [] task.frequency = "Weekly" -> JSBool(daysDiff % 7 = 0)
               [] task.frequency = "Monthly" -> JSBool(getDate(startDate) = getDate(checkDate))
               [] OTHER -> "false"

\* JavaScript truthiness of an evaluator's result (Array.prototype.filter, if)
Truthy(v) == v = "true"

---------------------------------------------------------------------------
(* Task list and completion map helpers                                    *)

Range(s) == {s[i] : i \in 1..Len(s)}
IdsOf(ts) == {ts[i].id : i \in 1..Len(ts)}
TaskById(ts, id) == CHOOSE t \in Range(ts) : t.id = id

\* Array.prototype.filter
RECURSIVE Filter(_, _)
Filter(s, keep) ==
    IF s = <<>> THEN <<>>
    ELSE IF keep[Head(s).id] THEN <<Head(s)>> \o Filter(Tail(s), keep)
    ELSE Filter(Tail(s), keep)

\* taskStatuses[`${id}_${date}`]
StatusOf(st, id, date) ==
    IF <<id, date>> \in DOMAIN st THEN st[<<id, date>>] ELSE "Unset"

\* { ...taskStatuses, [key]: status }
WithStatus(st, id, date, status) ==
    [k \in (DOMAIN st) \cup {<<id, date>>} |->
        IF k = <<id, date>> THEN status ELSE st[k]]

\* task.isTimeBased && task.targetTime
HasTargetTime(task) == task.isTimeBased /\ task.targetTime # NoTime

---------------------------------------------------------------------------
(* Streak calculation (App.js)                                             *)

\* variant of the loop of calculateCurrentStreak that does not stop at a
\* scheduled day that was missed: it counts every scheduled 'Yes' of the window
StreakWalk_NoBreak(task, st, checkDate, west) ==
    LET oldest == checkDate - MaxStreakWalk + 1
        window == (IF oldest < task.startDate THEN task.startDate ELSE oldest)..checkDate
    IN  Cardinality({d \in window : /\ Truthy(isTaskValidForDate(task, d, west))
                                     /\ StatusOf(st, task.id, d) = "Yes"})

\* variant of the loop of calculateCurrentStreak in which a day that is not
\* marked 'Yes' stops the walk whether or not the task is scheduled on it
StreakWalk_AnyDayBreaks(task, st, checkDate, west) ==
    LET oldest == checkDate - MaxStreakWalk + 1
        window == (IF oldest < task.startDate THEN task.startDate ELSE oldest)..checkDate
        scheduled == {d \in window : Truthy(isTaskValidForDate(task, d, west))}
        missed == {d \in window : StatusOf(st, task.id, d) # "Yes"}
    IN  Cardinality({d \in scheduled : \A m \in missed : d > m})

\* variant of the loop of calculateCurrentStreak without the cap of 365
\* iterations: it walks back to the task's start
StreakWalk_NoCap(task, st, checkDate, west) ==
    LET window == task.startDate..checkDate
        scheduled == {d \in window : Truthy(isTaskValidForDate(task, d, west))}
        missed == {d \in scheduled : StatusOf(st, task.id, d) # "Yes"}
    IN  Cardinality({d \in scheduled : \A m \in missed : d > m})

\* the loop of calculateCurrentStreak started at checkDate: it looks at the
\* MaxStreakWalk days ending with checkDate, newest first, counts the scheduled
\* days marked 'Yes' and stops at the first scheduled day that is not.  No date
\* before startDate is scheduled, so those days are left out of the window.
StreakWalk(task, st, checkDate, west) ==
    LET oldest == checkDate - MaxStreakWalk + 1
        window == (IF oldest < task.startDate THEN task.startDate ELSE oldest)..checkDate
        scheduled == {d \in window : Truthy(isTaskValidForDate(task, d, west))}
        missed == {d \in scheduled : StatusOf(st, task.id, d) # "Yes"}
    IN  Cardinality({d \in scheduled : \A m \in missed : d > m})

\* the dates the loop of calculateCurrentStreak started at checkDate examines:
\* iteration i looks at checkDate - i, for i from 0 to MaxStreakWalk - 1, as
\* long as no scheduled day that is not 'Yes' was met before
StreakWalkExamined(task, st, checkDate, west) ==
    LET oldest == checkDate - MaxStreakWalk + 1
        window == (IF oldest < task.startDate THEN task.startDate ELSE oldest)..checkDate
        missed == {d \in window : /\ Truthy(isTaskValidForDate(task, d, west))
                                  /\ StatusOf(st, task.id, d) # "Yes"}
    IN  {d \in oldest..checkDate : \A m \in missed : d >= m}

\* a task that is not there: `undefined`
NoTask == <<>>

\* variant of calculateCurrentStreak whose walk starts from today
calculateCurrentStreak_FromToday(task, st, t, west) ==
    StreakWalk(task, st, getTodayString(t), west)

\* calculateCurrentStreak(task, taskStatuses)
calculateCurrentStreak(task, st, t, west) ==
    LET today == getTodayString(t)
        streak == StreakWalk(task, st, today - 1, west)
    IN  IF task = NoTask THEN 0
        ELSE IF Truthy(isTaskValidForDate(task, today, west))
                /\ StatusOf(st, task.id, today) = "Yes"
        THEN streak + 1
        ELSE streak

\* useMemo activeTasks: tasks.filter(task => !task.endDate || task.endDate > today)
ActiveTasks(ts, t) ==
    Filter(ts, [id \in IdsOf(ts) |->
                  LET task == TaskById(ts, id)
                  IN  task.endDate = NoDate \/ task.endDate > getTodayString(t)])

\* useMemo homepageTaskStreaks: streaks[task.id] for every task of activeTasks
HomepageStreaks(active, st, t, west) ==
    [id \in IdsOf(active) |-> calculateCurrentStreak(TaskById(active, id), st, t, west)]

\* parseTimeToToday(timeString): today's date at HH:MM
parseTimeToToday(targetTime, t) == At(DayOf(t), targetTime)

\* variant of NextTrigger that moves to tomorrow only when the target time is
\* strictly in the past ("<" for "<=")
NextTrigger_StrictlyPast(targetTime, t) ==
    IF parseTimeToToday(targetTime, t) < t
    THEN parseTimeToToday(targetTime, t) + MinutesPerDay
    ELSE parseTimeToToday(targetTime, t)

\* "if (targetTime <= now) scheduleTime = targetTime + 1 day", as written in
\* scheduleExactAlarmImmediately, scheduleTimeBasedNotifications and
\* rescheduleExactAlarms
NextTrigger(targetTime, t) ==
    IF parseTimeToToday(targetTime, t) <= t
    THEN parseTimeToToday(targetTime, t) + MinutesPerDay
    ELSE parseTimeToToday(targetTime, t)

---------------------------------------------------------------------------
(* Native bridge: ExactAlarmPlugin.java + ExactAlarmScheduler (part_008)   *)

\* h * 31 + c in Java int arithmetic (32-bit two's complement), computed on
\* 16-bit halves
JavaMul31Add(h, c) ==
    LET lo == h % 65536
        hi == (h \div 65536) % 65536
        l == 31 * lo + c
        lo2 == l % 65536
        hi2 == (31 * hi + (l \div 65536)) % 65536
    IN  IF hi2 >= 32768 THEN (hi2 - 65536) * 65536 + lo2 ELSE hi2 * 65536 + lo2

\* java.lang.String.hashCode() of Date.now().toString(), the decimal text of id
RECURSIVE hashCode(_)
hashCode(id) ==
    IF id < 10 THEN 48 + id
    ELSE JavaMul31Add(hashCode(id \div 10), 48 + (id % 10))

\* A pending alarm is identified by its PendingIntent: same receiver class,
\* request code taskId.hashCode(); extras are not part of the identity.
Alarm(taskId, time) == [key |-> hashCode(taskId), taskId |-> taskId, time |-> time]

\* variant of ExactAlarmScheduler.schedule that registers the new alarm next to
\* the ones already pending (no cancel, no FLAG_UPDATE_CURRENT replacement)
ExactAlarmScheduler_schedule_NoReplace(al, perm, triggerAtMillis, taskId) ==
    IF ~perm THEN al
    ELSE al \cup {Alarm(taskId, triggerAtMillis)}

\* ExactAlarmScheduler.schedule(context, triggerAtMillis, taskId, taskName)
ExactAlarmScheduler_schedule(al, perm, triggerAtMillis, taskId) ==
    IF ~perm THEN al
    ELSE {a \in al : a.key # hashCode(taskId)} \cup {Alarm(taskId, triggerAtMillis)}

\* ExactAlarmScheduler.cancel(context, taskId)
ExactAlarmScheduler_cancel(al, taskId) == {a \in al : a.key # hashCode(taskId)}

\* ExactAlarmPlugin.schedule(call): the promise seen by JavaScript.
\* `throws` is an exception raised inside the native call.
ExactAlarmPlugin_schedule(al, perm, time, taskId, throws) ==
    IF throws THEN [alarms |-> al, resolved |-> FALSE]
    ELSE [alarms |-> ExactAlarmScheduler_schedule(al, perm, time, taskId),
          resolved |-> TRUE]

\* ExactAlarmPlugin.cancel(call)
ExactAlarmPlugin_cancel(al, taskId) == ExactAlarmScheduler_cancel(al, taskId)

\* The extras of an alarm intent as getStringExtra returns them: <<>> is null
Intent(taskId, taskName) == [taskId |-> taskId, taskName |-> taskName]

\* the task name stored with task id (the 'name' field of the task)
TaskName(taskId) == <<"task", taskId>>

\* a % b of Java (the sign of the dividend) and Math.abs
JavaRem(a, b) == IF a >= 0 THEN a % b ELSE 0 - ((0 - a) % b)
Abs(x) == IF x >= 0 THEN x ELSE 0 - x

NOTIFICATION_ID_BASE == 10000
NotificationIdRange == 10000

\* NOTIFICATION_ID_BASE + Math.abs(taskId.hashCode() % 10000)
notificationId(taskId) ==
    NOTIFICATION_ID_BASE + Abs(JavaRem(hashCode(taskId), NotificationIdRange))

\* NotificationManager.notify(id, notification): a notification posted under
\* an id that is already displayed replaces it
NotificationManager_notify(displayed, id, notification) ==
    {n \in displayed : n.nid # id} \cup {[nid |-> id] @@ notification}

\* variant of showNotification that posts under a fresh id every time
showNotification_FreshId(displayed, taskId, taskName) ==
    NotificationManager_notify(displayed, NOTIFICATION_ID_BASE + Cardinality(displayed),
                               [taskId |-> taskId, title |-> taskName])

\* ExactAlarmReceiver.showNotification(context, taskId, taskName) of part_004
showNotification(displayed, taskId, taskName) ==
    NotificationManager_notify(displayed, notificationId(taskId),
                               [taskId |-> taskId, title |-> taskName])

\* ExactAlarmReceiver.onReceive(context, intent) of part_004 for an intent
\* with the action EXACT_ALARM
ExactAlarmReceiver_onReceive(displayed, intent) ==
    IF intent.taskId = <<>> \/ intent.taskName = <<>> THEN displayed
    ELSE showNotification(displayed, intent.taskId[1], intent.taskName[1])

\* ExactAlarmReceiver.onReceive of ExactAlarmPlugin.java:
\* manager.notify(taskId.hashCode(), ...)
ExactAlarmPlugin_onReceive(displayed, intent) ==
    IF intent.taskId = <<>> \/ intent.taskName = <<>> THEN displayed
    ELSE NotificationManager_notify(displayed, hashCode(intent.taskId[1]),
                                    [taskId |-> intent.taskId[1],
                                     title |-> intent.taskName[1]])

---------------------------------------------------------------------------
(* LocalNotifications plugin: pending notifications, one per id            *)

Notif(id, at, taskId) == [id |-> id, at |-> at, taskId |-> taskId]

LN_schedule(pending, n) == {m \in pending : m.id # n.id} \cup {n}
LN_cancel(pending, ids) == {m \in pending : m.id \notin ids}

---------------------------------------------------------------------------
(* Faults injected into one handler run: the set of calls that throw, each  *)
(* named by the task it is made for (0 for none) and the call: "arm" and     *)
(* "grace" are the port's schedule calls, "getFlag" and "setFlag" the        *)
(* window.storage read and write of the task's dedup flag.  The handlers of  *)
(* the app run with at most one rejected port call.                          *)

NoFault == {}
Faults == {NoFault} \cup {{f} : f \in [id : TaskIds, call : {"arm", "grace"}]}

Rejects(fault, id, call) == [id |-> id, call |-> call] \in fault

\* The engine-owned part of the state threaded through a pass
Store(al, pending, fl, lsd, lst, lc) ==
    [alarms |-> al, ln |-> pending, flags |-> fl,
     lastScheduledDate |-> lsd, lastScheduledTime |-> lst, lastCheck |-> lc]

Flag(kind, id, date) == [kind |-> kind, id |-> id, date |-> date]

---------------------------------------------------------------------------
(* Daily notification orchestrator (same text in PushNotifications.js and  *)
(* part_000)                                                               *)

\* calculateTaskStats(tasks, taskStatuses, dateString)
calculateTaskStats(ts, st, dateString, west) ==
    LET validTasks == {i \in 1..Len(ts) : Truthy(StatsValid(ts[i], dateString, west))}
        completed == {i \in validTasks : StatusOf(st, ts[i].id, dateString) = "Yes"}
    IN  [totalTasks |-> Cardinality(validTasks),
         completedTasks |-> Cardinality(completed),
         pendingTasks |-> Cardinality(validTasks) - Cardinality(completed)]

\* hasUserActuallyStarted(tasks)
hasUserActuallyStarted(ts) == Len(ts) > 0

\* a message of the digest: its title and the numbers its body interpolates,
\* in the order of the text
Message(title, numbers) == [title |-> title, numbers |-> numbers]

\* variant of generateMorningMessage without the 'Your Tasks Await' branch
generateMorningMessage_NoAwait(yesterdayStats, todayStats) ==
    LET yesterdayTotal == yesterdayStats.totalTasks
        yesterdayCompleted == yesterdayStats.completedTasks
        todayTotal == todayStats.totalTasks
    IN  IF yesterdayTotal = 0 /\ todayTotal = 0
        THEN Message("A Fresh Start Awaits", <<>>)
        ELSE IF yesterdayCompleted = 0
        THEN Message("Yesterday Slipped", <<todayTotal>>)
        ELSE IF yesterdayCompleted = yesterdayTotal
        THEN Message("Yesterday Was Strong", <<todayTotal>>)
        ELSE Message("Progress Made", <<yesterdayCompleted, yesterdayTotal, todayTotal>>)

\* generateMorningMessage(yesterdayStats, todayStats)
generateMorningMessage(yesterdayStats, todayStats) ==
    LET yesterdayTotal == yesterdayStats.totalTasks
        yesterdayCompleted == yesterdayStats.completedTasks
        todayTotal == todayStats.totalTasks
    IN  IF yesterdayTotal = 0 /\ todayTotal = 0
        THEN Message("A Fresh Start Awaits", <<>>)
        ELSE IF yesterdayTotal = 0 /\ todayTotal > 0
        THEN Message("Your Tasks Await", <<todayTotal>>)
        ELSE IF yesterdayCompleted = 0
        THEN Message("Yesterday Slipped", <<todayTotal>>)
        ELSE IF yesterdayCompleted = yesterdayTotal
        THEN Message("Yesterday Was Strong", <<todayTotal>>)
        ELSE Message("Progress Made", <<yesterdayCompleted, yesterdayTotal, todayTotal>>)

\* morningMsg of scheduleDailyNotifications: the morning message for the
\* statistics of yesterday and today
MorningMessage(ts, st, t, west) ==
    generateMorningMessage(calculateTaskStats(ts, st, getYesterdayString(t), west),
                           calculateTaskStats(ts, st, getTodayString(t), west))

\* variant of shouldScheduleToday without the one-hour window: a run is
\* suppressed whenever lastScheduledDate is today
shouldScheduleToday_DateOnly(S, t) ==
    ~ (S.lastScheduledDate # 0 /\ S.lastScheduledDate = getTodayString(t))

\* shouldScheduleToday()
shouldScheduleToday(S, t) ==
    ~ (/\ S.lastScheduledDate # 0
       /\ S.lastScheduledDate = getTodayString(t)
       /\ t - S.lastScheduledTime < CooldownMinutes)

\* variant of the fixed-time computation that never moves to the next day
FixedTimeInstant_TodayOnly(minute, t) == At(DayOf(t), minute)

\* "const x = new Date(); x.setHours(h, 0, 0, 0); if (x < Date.now()) x += 1 day"
FixedTimeInstant(minute, t) ==
    IF At(DayOf(t), minute) < t THEN At(DayOf(t), minute) + MinutesPerDay
    ELSE At(DayOf(t), minute)

\* generateStreakWarning(pendingTasks)
generateStreakWarning(pendingTasks) ==
    IF pendingTasks = 1 THEN Message("One Task Remaining", <<>>)
    ELSE Message("Tasks Pending", <<pendingTasks>>)

\* variant of the streak-warning branch that tests only totalTasks
StreakWarnings_AnyTask(todayStats) ==
    IF todayStats.totalTasks > 0
    THEN {generateStreakWarning(todayStats.pendingTasks)} ELSE {}

\* the streak-warning branch of scheduleDailyNotifications: the messages it
\* composes (one or none)
StreakWarnings(todayStats) ==
    IF todayStats.totalTasks > 0 /\ todayStats.pendingTasks > 0
    THEN {generateStreakWarning(todayStats.pendingTasks)} ELSE {}

\* clearOldNotificationFlags(tasks)
clearOldNotificationFlags(ts, S, t) ==
    [S EXCEPT !.flags = {f \in S.flags :
        ~ \E i \in 1..Len(ts) :
            /\ HasTargetTime(ts[i])
            /\ f = Flag("timeTaskScheduled", ts[i].id, getYesterdayString(t))}]

\* variant of the clearing of the old notifications that also drops the
\* pending exact alarms
ClearOldNotifications_AndAlarms(S) ==
    [S EXCEPT !.ln = LN_cancel(S.ln, 1..9), !.alarms = {}]

\* "Clear all old notifications": LocalNotifications.cancel of ids 1 to 9
ClearOldNotifications(S) == [S EXCEPT !.ln = LN_cancel(S.ln, 1..9)]

\* the `notifications` array of scheduleDailyNotifications: morning, night
\* and, with tasks pending, the streak warning
DailyNotifications(ts, st, t, west) ==
    LET todayStats == calculateTaskStats(ts, st, getTodayString(t), west)
        morning == Notif(1, FixedTimeInstant(MorningMinute, t), 0)
        night == Notif(2, FixedTimeInstant(NightMinute, t), 0)
        warning == {Notif(3, FixedTimeInstant(WarnMinute, t), 0) :
                       warnMsg \in StreakWarnings(todayStats)}
    IN  {morning, night} \cup warning

\* scheduleDailyNotifications(tasks, taskStatuses)
scheduleDailyNotifications(ts, st, S, t, west, fault) ==
    IF ~ hasUserActuallyStarted(ts) THEN S
    ELSE IF ~ shouldScheduleToday(S, t) THEN S
    ELSE
      LET cleared == ClearOldNotifications(S)
      IN  IF Rejects(fault, 0, "daily")
          THEN cleared
          ELSE [cleared EXCEPT !.ln = cleared.ln \cup DailyNotifications(ts, st, t, west),
                         !.lastScheduledDate = getTodayString(t),
                         !.lastScheduledTime = t]

---------------------------------------------------------------------------
(* part_000 (v3.8): native exact alarms                                    *)

\* the loop body of rescheduleExactAlarms over activeTimeBased
RECURSIVE RescheduleLoop(_, _, _, _, _, _)
RescheduleLoop(list, st, S, t, perm, fault) ==
    IF list = <<>> THEN S
    ELSE
      LET task == Head(list)
          nextTrigger == NextTrigger(task.targetTime, t)
          isCompleted == StatusOf(st, task.id, getTodayString(t)) = "Yes"
          r == ExactAlarmPlugin_schedule(S.alarms, perm, nextTrigger, task.id,
                                         Rejects(fault, task.id, "arm"))
      IN  IF isCompleted THEN RescheduleLoop(Tail(list), st, S, t, perm, fault)
          ELSE RescheduleLoop(Tail(list), st, [S EXCEPT !.alarms = r.alarms],
                              t, perm, fault)

\* variant of rescheduleExactAlarms that re-arms only tasks without an end date
rescheduleExactAlarms_OpenEndedOnly(ts, st, S, t, perm, fault) ==
    LET activeTimeBased == Filter(ts, [id \in IdsOf(ts) |->
            LET task == TaskById(ts, id)
            IN  HasTargetTime(task) /\ task.endDate = NoDate])
    IN  RescheduleLoop(activeTimeBased, st, S, t, perm, fault)

\* the activeTimeBased filter of rescheduleExactAlarms
ActiveTimeBased(ts, t) ==
    Filter(ts, [id \in IdsOf(ts) |->
        LET task == TaskById(ts, id)
        IN  HasTargetTime(task)
            /\ (task.endDate = NoDate \/ task.endDate > getTodayString(t))])

\* rescheduleExactAlarms(tasks, taskStatuses)
rescheduleExactAlarms(ts, st, S, t, perm, fault) ==
    RescheduleLoop(ActiveTimeBased(ts, t), st, S, t, perm, fault)

\* variant of the loop of scheduleTimeBasedNotifications with the try block
\* around the whole loop: the first call that throws ends the batch
RECURSIVE ExactScheduleLoop_AbortOnFailure(_, _, _, _, _, _)
ExactScheduleLoop_AbortOnFailure(list, st, S, t, perm, fault) ==
    IF list = <<>> THEN S
    ELSE
      LET task == Head(list)
          today == getTodayString(t)
          isCompleted == StatusOf(st, task.id, today) = "Yes"
          scheduleFlagKey == Flag("exactAlarm", task.id, today)
          r == ExactAlarmPlugin_schedule(S.alarms, perm, NextTrigger(task.targetTime, t),
                                         task.id, Rejects(fault, task.id, "arm"))
      IN  IF isCompleted
          THEN ExactScheduleLoop_AbortOnFailure(Tail(list), st, S, t, perm, fault)
          ELSE IF Rejects(fault, task.id, "getFlag") THEN S
          ELSE IF scheduleFlagKey \in S.flags
               THEN ExactScheduleLoop_AbortOnFailure(Tail(list), st, S, t, perm, fault)
          ELSE IF ~ r.resolved THEN S
          ELSE IF Rejects(fault, task.id, "setFlag")
               THEN [S EXCEPT !.alarms = r.alarms]
          ELSE ExactScheduleLoop_AbortOnFailure(Tail(list), st,
                  [S EXCEPT !.alarms = r.alarms,
                            !.flags = S.flags \cup {scheduleFlagKey}],
                  t, perm, fault)

\* the loop body of scheduleTimeBasedNotifications (part_000)
RECURSIVE ExactScheduleLoop(_, _, _, _, _, _)
ExactScheduleLoop(list, st, S, t, perm, fault) ==
    IF list = <<>> THEN S
    ELSE
      LET task == Head(list)
          today == getTodayString(t)
          isCompleted == StatusOf(st, task.id, today) = "Yes"
          scheduleFlagKey == Flag("exactAlarm", task.id, today)
          scheduleTime == NextTrigger(task.targetTime, t)
          r == ExactAlarmPlugin_schedule(S.alarms, perm, scheduleTime, task.id,
                                         Rejects(fault, task.id, "arm"))
      IN  IF isCompleted THEN ExactScheduleLoop(Tail(list), st, S, t, perm, fault)
          ELSE IF Rejects(fault, task.id, "getFlag")
               THEN ExactScheduleLoop(Tail(list), st, S, t, perm, fault)
          ELSE IF scheduleFlagKey \in S.flags
               THEN ExactScheduleLoop(Tail(list), st, S, t, perm, fault)
          ELSE IF ~ r.resolved
               THEN ExactScheduleLoop(Tail(list), st, S, t, perm, fault)
          ELSE IF Rejects(fault, task.id, "setFlag")
               THEN ExactScheduleLoop(Tail(list), st, [S EXCEPT !.alarms = r.alarms],
                                      t, perm, fault)
          ELSE ExactScheduleLoop(Tail(list), st,
                  [S EXCEPT !.alarms = r.alarms,
                            !.flags = S.flags \cup {scheduleFlagKey}],
                  t, perm, fault)

\* the timeBasedTasks filter of scheduleTimeBasedNotifications and of
\* cancelTimeBasedNotifications
TimeBasedTasksToday(ts, t, west) ==
    Filter(ts, [id \in IdsOf(ts) |->
        LET task == TaskById(ts, id)
        IN  HasTargetTime(task)
            /\ Truthy(PN_isTaskValidForDate(task, getTodayString(t), west))])

\* scheduleTimeBasedNotifications(tasks, taskStatuses) of part_000
Exact_scheduleTimeBasedNotifications(ts, st, S, t, perm, west, fault) ==
    ExactScheduleLoop(TimeBasedTasksToday(ts, t, west), st, S, t, perm, fault)

\* cancelTimeBasedNotifications(taskId, tasks) of part_000
Exact_cancelTimeBasedNotifications(taskId, ts, S, t, west) ==
    [S EXCEPT !.alarms = ExactAlarmPlugin_cancel(S.alarms, taskId)]

\* triggerDailyNotificationCheck(tasks, taskStatuses) of part_000
Exact_triggerDailyNotificationCheck(ts, st, S, t, perm, west, fault) ==
    IF ~ hasUserActuallyStarted(ts) THEN S
    ELSE
      LET S1 == clearOldNotificationFlags(ts, S, t)
          S2 == rescheduleExactAlarms(ts, st, S1, t, perm, fault)
          S3 == scheduleDailyNotifications(ts, st, S2, t, west, fault)
      IN  Exact_scheduleTimeBasedNotifications(ts, st, S3, t, perm, west, fault)

---------------------------------------------------------------------------
(* triggerDailyNotificationCheck of part_000 as the event loop runs it: an  *)
(* invocation is suspended at every await of a storage or plugin call, and  *)
(* other callbacks run in between.  A suspended invocation holds the tasks   *)
(* and taskStatuses it was called with (the statuses as the keys that read  *)
(* 'Yes'), the call it awaits and its loop index.  The removals of           *)
(* clearOldNotificationFlags, the two reads of shouldScheduleToday and the   *)
(* two writes of markAsScheduledToday are each taken as one call.            *)

Call(pc, ts, yes, i) == [pc |-> pc, tasks |-> ts, yes |-> yes, i |-> i]

\* not invoked yet
IdleCall == Call("idle", <<>>, {}, 0)

\* the invocation runs from the call that is completing to its next await
PassStep(c, S, t, perm, west) ==
    LET ts == c.tasks
        st == [k \in c.yes |-> "Yes"]
        today == getTodayString(t)
    IN  CASE c.pc = "clear" ->
               [call |-> [c EXCEPT !.pc = "rearm", !.i = 1],
                store |-> clearOldNotificationFlags(ts, S, t)]
          [] c.pc = "rearm" ->
               LET list == ActiveTimeBased(ts, t)
               IN  IF c.i > Len(list)
                   THEN [call |-> [c EXCEPT !.pc = "should"], store |-> S]
                   ELSE [call |-> [c EXCEPT !.i = c.i + 1],
                         store |-> RescheduleLoop(<<list[c.i]>>, st, S, t, perm, NoFault)]
          [] c.pc = "should" ->
               IF shouldScheduleToday(S, t)
               THEN [call |-> [c EXCEPT !.pc = "cancel"], store |-> S]
               ELSE [call |-> [c EXCEPT !.pc = "getFlag", !.i = 1], store |-> S]
          [] c.pc = "cancel" ->
               [call |-> [c EXCEPT !.pc = "schedule"],
                store |-> ClearOldNotifications(S)]
          [] c.pc = "schedule" ->
               [call |-> [c EXCEPT !.pc = "mark"],
                store |-> [S EXCEPT !.ln =
                    {m \in S.ln : \A n \in DailyNotifications(ts, st, t, west) :
                                     m.id # n.id}
                    \cup DailyNotifications(ts, st, t, west)]]
          [] c.pc = "mark" ->
               [call |-> [c EXCEPT !.pc = "getFlag", !.i = 1],
                store |-> [S EXCEPT !.lastScheduledDate = today,
                                    !.lastScheduledTime = t]]
          [] c.pc = "getFlag" ->
               LET list == TimeBasedTasksToday(ts, t, west)
               IN  IF c.i > Len(list)
                   THEN [call |-> [c EXCEPT !.pc = "done"], store |-> S]
                   ELSE IF StatusOf(st, list[c.i].id, today) = "Yes"
                        THEN [call |-> [c EXCEPT !.i = c.i + 1], store |-> S]
                   ELSE IF Flag("exactAlarm", list[c.i].id, today) \in S.flags
                        THEN [call |-> [c EXCEPT !.i = c.i + 1], store |-> S]
                   ELSE [call |-> [c EXCEPT !.pc = "arm"], store |-> S]
          [] c.pc = "arm" ->
               LET task == TimeBasedTasksToday(ts, t, west)[c.i]
               IN  [call |-> [c EXCEPT !.pc = "setFlag"],
                    store |-> [S EXCEPT !.alarms =
                        ExactAlarmPlugin_schedule(S.alarms, perm,
                            NextTrigger(task.targetTime, t), task.id, FALSE).alarms]]
          [] c.pc = "setFlag" ->
               LET task == TimeBasedTasksToday(ts, t, west)[c.i]
               IN  [call |-> [c EXCEPT !.pc = "getFlag", !.i = c.i + 1],
                    store |-> [S EXCEPT !.flags =
                        S.flags \cup {Flag("exactAlarm", task.id, today)}]]

---------------------------------------------------------------------------
(* src/src/PushNotifications.js (v3.8.1): LocalNotifications, main + grace *)

\* the loop body of scheduleTimeBasedNotifications; i is the 0-based index
RECURSIVE LocalScheduleLoop(_, _, _, _, _, _)
LocalScheduleLoop(list, i, st, S, t, fault) ==
    IF i >= Len(list) THEN S
    ELSE
      LET task == list[i + 1]
          today == getTodayString(t)
          isCompleted == StatusOf(st, task.id, today) = "Yes"
          scheduleFlagKey == Flag("timeTaskScheduled", task.id, today)
          scheduleTime == NextTrigger(task.targetTime, t)
          main == Notif(MainIdBase + i, scheduleTime, task.id)
          grace == Notif(GraceIdBase + i, scheduleTime + GraceMinutes, task.id)
      IN  IF isCompleted THEN LocalScheduleLoop(list, i + 1, st, S, t, fault)
          ELSE IF Rejects(fault, task.id, "getFlag")
               THEN LocalScheduleLoop(list, i + 1, st, S, t, fault)
          ELSE IF scheduleFlagKey \in S.flags
               THEN LocalScheduleLoop(list, i + 1, st, S, t, fault)
          ELSE IF Rejects(fault, task.id, "arm")
               THEN LocalScheduleLoop(list, i + 1, st, S, t, fault)
          ELSE IF Rejects(fault, task.id, "grace")
               THEN LocalScheduleLoop(list, i + 1, st,
                       [S EXCEPT !.ln = LN_schedule(S.ln, main)], t, fault)
          ELSE IF Rejects(fault, task.id, "setFlag")
               THEN LocalScheduleLoop(list, i + 1, st,
                       [S EXCEPT !.ln = LN_schedule(LN_schedule(S.ln, main), grace)],
                       t, fault)
          ELSE LocalScheduleLoop(list, i + 1, st,
                  [S EXCEPT !.ln = LN_schedule(LN_schedule(S.ln, main), grace),
                            !.flags = S.flags \cup {scheduleFlagKey}],
                  t, fault)

\* scheduleTimeBasedNotifications(tasks, taskStatuses)
scheduleTimeBasedNotifications(ts, st, S, t, west, fault) ==
    LocalScheduleLoop(TimeBasedTasksToday(ts, t, west), 0, st, S, t, fault)

\* Array.prototype.findIndex(t => t.id === taskId), 0-based, -1 when absent
findIndex(list, taskId) ==
    IF \E i \in 1..Len(list) : list[i].id = taskId
    THEN (CHOOSE i \in 1..Len(list) :
            /\ list[i].id = taskId
            /\ \A j \in 1..(i - 1) : list[j].id # taskId) - 1
    ELSE 0 - 1

\* cancelTimeBasedNotifications(taskId, tasks)
cancelTimeBasedNotifications(taskId, ts, S, t, west) ==
    LET taskIndex == findIndex(TimeBasedTasksToday(ts, t, west), taskId)
    IN  IF taskIndex = 0 - 1 THEN S
        ELSE [S EXCEPT !.ln = LN_cancel(S.ln,
                 {MainIdBase + taskIndex, GraceIdBase + taskIndex})]

\* variant of triggerDailyNotificationCheck without the last_notification_check
\* test
triggerDailyNotificationCheck_NoLastRun(ts, st, S, t, west, fault) ==
    IF ~ hasUserActuallyStarted(ts) THEN S
    ELSE
      LET S1 == clearOldNotificationFlags(ts, S, t)
          S2 == scheduleDailyNotifications(ts, st, S1, t, west, fault)
          S3 == scheduleTimeBasedNotifications(ts, st, S2, t, west, fault)
      IN  [S3 EXCEPT !.lastCheck = getTodayString(t)]

\* triggerDailyNotificationCheck(tasks, taskStatuses)
triggerDailyNotificationCheck(ts, st, S, t, west, fault) ==
    IF ~ hasUserActuallyStarted(ts) THEN S
    ELSE IF S.lastCheck = getTodayString(t) THEN S
    ELSE
      LET S1 == clearOldNotificationFlags(ts, S, t)
          S2 == scheduleDailyNotifications(ts, st, S1, t, west, fault)
          S3 == scheduleTimeBasedNotifications(ts, st, S2, t, west, fault)
      IN  [S3 EXCEPT !.lastCheck = getTodayString(t)]

---------------------------------------------------------------------------
(* The engine linked into the app: "local" is src/src/PushNotifications.js, *)
(* "exact" is part_000.                                                    *)

Trigger(engine, ts, st, S, t, perm, west, fault) ==
    IF engine = "exact"
    THEN Exact_triggerDailyNotificationCheck(ts, st, S, t, perm, west, fault)
    ELSE triggerDailyNotificationCheck(ts, st, S, t, west, fault)

Cancel(engine, taskId, ts, S, t, west) ==
    IF engine = "exact"
    THEN Exact_cancelTimeBasedNotifications(taskId, ts, S, t, west)
    ELSE cancelTimeBasedNotifications(taskId, ts, S, t, west)

---------------------------------------------------------------------------
(* App.js: state after construction and the handlers                       *)

EmptyStatuses == [k \in {} |-> "Unset"]

\* The closure of the scheduling effect holds the tasks and taskStatuses of the
\* render that created it.  The pass reads statuses only through "=== 'Yes'",
\* so the closure is kept as the set of keys that read 'Yes'.
Capture(ts, st) == [tasks |-> ts, yes |-> {k \in DOMAIN st : st[k] = "Yes"}]
Captured(yes) == [k \in yes |-> "Yes"]

Task(id, startDate, frequency, isTimeBased, targetTime) ==
    [id |-> id, startDate |-> startDate, endDate |-> NoDate,
     frequency |-> frequency, isTimeBased |-> isTimeBased,
     targetTime |-> targetTime]

\* inputs of the add-task form
NewTaskStartDates(t) == {getTodayString(t)}
NewTaskFrequencies == {"Daily", "Alternate Days"}
NewTaskTimes == {[isTimeBased |-> FALSE, targetTime |-> NoTime]}
                \cup [isTimeBased : {TRUE}, targetTime : TargetTimes]

CurrentStore ==
    Store(alarms, ln, flags, lastScheduledDate, lastScheduledTime, lastCheck)

Commit(S) ==
    /\ alarms' = S.alarms
    /\ ln' = S.ln
    /\ flags' = S.flags
    /\ lastScheduledDate' = S.lastScheduledDate
    /\ lastScheduledTime' = S.lastScheduledTime
    /\ lastCheck' = S.lastCheck

\* the render after setTasks(ts): activeTasks is recomputed, and with it
\* homepageTaskStreaks
RenderTasks(ts, st) ==
    /\ activeTasks' = ActiveTasks(ts, now)
    /\ homepageTaskStreaks' = HomepageStreaks(ActiveTasks(ts, now), st, now, tzWest)

\* the render after setTaskStatuses(st): activeTasks is kept,
\* homepageTaskStreaks is recomputed
RenderStatuses(st) ==
    /\ UNCHANGED activeTasks
    /\ homepageTaskStreaks' = HomepageStreaks(activeTasks, st, now, tzWest)

\* the memoised values of the first render with these tasks and statuses
Mounted(ts, st) ==
    /\ activeTasks = ActiveTasks(ts, now)
    /\ homepageTaskStreaks = HomepageStreaks(ActiveTasks(ts, now), st, now, tzWest)

\* no component is mounted
Unmounted ==
    /\ activeTasks' = <<>>
    /\ homepageTaskStreaks' = EmptyStatuses

Init ==
    /\ now = At(FirstDay, 0)
    /\ tzWest \in TzOffsets
    /\ running = TRUE
    /\ tasks = <<>>
    /\ taskStatuses = EmptyStatuses
    /\ cap = Capture(<<>>, EmptyStatuses)
    /\ nextId = 1
    /\ permission \in BOOLEAN
    /\ alarms = {}
    /\ ln = {}
    /\ flags = {}
    /\ lastScheduledDate = 0
    /\ lastScheduledTime = 0
    /\ lastCheck = 0
    /\ shown = {}
    /\ Mounted(tasks, taskStatuses)
    /\ inflight = <<>>

\* scheduleExactAlarmImmediately(task)
scheduleExactAlarmImmediately(task, S, t, perm, fault) ==
    IF ~ task.isTimeBased \/ task.targetTime = NoTime THEN S
    ELSE [S EXCEPT !.alarms =
            ExactAlarmPlugin_schedule(S.alarms, perm, NextTrigger(task.targetTime, t),
                                      task.id, Rejects(fault, task.id, "arm")).alarms]

\* the effect "Schedule notifications ONCE per day at app start", deps
\* [tasks.length]: runs the pass with the tasks and statuses of the render
SchedulingEffect(engine, ts, st, S, t, perm, west, fault) ==
    IF Len(ts) = 0 THEN S
    ELSE Trigger(engine, ts, st, S, t, perm, west, fault)

\* handleAddTask()
handleAddTask(engine) ==
    \E start \in NewTaskStartDates(now), freq \in NewTaskFrequencies,
       tm \in NewTaskTimes, fault \in Faults :
      LET task == Task(nextId, start, freq, tm.isTimeBased, tm.targetTime)
          updatedTasks == Append(tasks, task)
          S1 == scheduleExactAlarmImmediately(task, CurrentStore, now, permission, fault)
          S2 == SchedulingEffect(engine, updatedTasks, taskStatuses, S1, now,
                                 permission, tzWest, fault)
      IN  /\ running
          /\ nextId <= MaxTasks
          /\ tasks' = updatedTasks
          /\ nextId' = nextId + 1
          /\ cap' = Capture(updatedTasks, taskStatuses)
          /\ Commit(S2)
          /\ RenderTasks(updatedTasks, taskStatuses)
          /\ UNCHANGED <<now, tzWest, running, taskStatuses, permission, shown, inflight>>

\* handleEndTask(endDate) for the task chosen as currentTaskForEnd
handleEndTask ==
    \E i \in 1..Len(tasks) :
      \E endDate \in {d \in FirstDay..LastDay : d >= tasks[i].startDate} :
        /\ running
        /\ tasks' = [tasks EXCEPT ![i].endDate = endDate]
        /\ RenderTasks([tasks EXCEPT ![i].endDate = endDate], taskStatuses)
        /\ UNCHANGED <<now, tzWest, running, taskStatuses, cap, nextId, permission,
                       alarms, ln, flags, lastScheduledDate, lastScheduledTime,
                       lastCheck, shown, inflight>>

\* handleRemoveTask(taskId)
handleRemoveTask(engine) ==
    \E i \in 1..Len(tasks), fault \in Faults :
      LET updatedTasks == Filter(tasks, [id \in IdsOf(tasks) |-> id # tasks[i].id])
          S1 == SchedulingEffect(engine, updatedTasks, taskStatuses, CurrentStore,
                                 now, permission, tzWest, fault)
      IN  /\ running
          /\ tasks' = updatedTasks
          /\ cap' = Capture(updatedTasks, taskStatuses)
          /\ Commit(S1)
          /\ RenderTasks(updatedTasks, taskStatuses)
          /\ UNCHANGED <<now, tzWest, running, taskStatuses, nextId, permission, shown,
                         inflight>>

\* handleSaveEdit() for the task opened in the edit modal, the user having
\* picked another target time or switched the reminder off; the task count does
\* not change, so the scheduling effect does not run again
handleSaveEdit ==
    \E i \in 1..Len(tasks), tm \in NewTaskTimes :
        /\ running
        /\ tasks[i].isTimeBased
        /\ tasks' = [tasks EXCEPT ![i].isTimeBased = tm.isTimeBased,
                                  ![i].targetTime = tm.targetTime]
        /\ RenderTasks([tasks EXCEPT ![i].isTimeBased = tm.isTimeBased,
                                     ![i].targetTime = tm.targetTime], taskStatuses)
        /\ UNCHANGED <<now, tzWest, running, taskStatuses, cap, nextId, permission,
                       alarms, ln, flags, lastScheduledDate, lastScheduledTime,
                       lastCheck, shown, inflight>>

\* variant of handleStatusChange without the "date !== todayString" return: the
\* record of the requested date is written
handleStatusChange_AnyDate(engine) ==
    \E i \in 1..Len(tasks), status \in StatusChoices,
       date \in {getTodayString(now) - 1, getTodayString(now)} :
      LET taskId == tasks[i].id
          updatedStatuses == WithStatus(taskStatuses, taskId, date, status)
      IN  /\ running
          /\ Truthy(isTaskValidForDate(tasks[i], date, tzWest))
          /\ taskStatuses' = updatedStatuses
          /\ RenderStatuses(updatedStatuses)
          /\ IF status = "Yes"
             THEN Commit(Cancel(engine, taskId, tasks, CurrentStore, now, tzWest))
             ELSE Commit(CurrentStore)
          /\ UNCHANGED <<now, tzWest, running, tasks, cap, nextId, permission, shown,
                         inflight>>

\* handleStatusChange(taskId, date, status), called from the tracker row of a
\* task listed for the selected date
handleStatusChange(engine) ==
    \E i \in 1..Len(tasks), status \in StatusChoices,
       date \in {getTodayString(now) - 1, getTodayString(now)} :
      LET taskId == tasks[i].id
          todayString == getTodayString(now)
          updatedStatuses == WithStatus(taskStatuses, taskId, todayString, status)
      IN  /\ running
          /\ Truthy(isTaskValidForDate(tasks[i], date, tzWest))
          /\ IF date # todayString
             THEN UNCHANGED <<taskStatuses, alarms, ln, flags, lastScheduledDate,
                              lastScheduledTime, lastCheck, memos>>
             ELSE /\ taskStatuses' = updatedStatuses
                  /\ RenderStatuses(updatedStatuses)
                  /\ IF status = "Yes"
                     THEN Commit(Cancel(engine, taskId, tasks, CurrentStore, now, tzWest))
                     ELSE Commit(CurrentStore)
          /\ UNCHANGED <<now, tzWest, running, tasks, cap, nextId, permission, shown,
                         inflight>>


\* the tasks autoMarkUncompletedTasks would set to 'No' now
AutoMarkDue ==
    {i \in 1..Len(tasks) :
        /\ Truthy(isTaskValidForDate(tasks[i], getTodayString(now), tzWest))
        /\ StatusOf(taskStatuses, tasks[i].id, getTodayString(now)) \in {"Unset", "Partly"}}

\* autoMarkUncompletedTasks(tasks, taskStatuses, ...), run by the one-minute
\* interval of the auto-mark effect
autoMarkUncompletedTasks ==
    LET todayString == getTodayString(now)
        due == AutoMarkDue
        keys == {<<tasks[i].id, todayString>> : i \in due}
    IN  /\ running
        /\ MinuteOf(now) = AutoMarkMinute
        /\ taskStatuses' = [k \in (DOMAIN taskStatuses) \cup keys |->
                              IF k \in keys THEN "No" ELSE taskStatuses[k]]
        /\ IF keys = {}
           THEN UNCHANGED memos
           ELSE RenderStatuses([k \in (DOMAIN taskStatuses) \cup keys |->
                                  IF k \in keys THEN "No" ELSE taskStatuses[k]])
        /\ UNCHANGED <<now, tzWest, running, tasks, cap, nextId, permission, alarms,
                       ln, flags, lastScheduledDate, lastScheduledTime, lastCheck,
                       shown, inflight>>

\* the checkMidnight interval of the scheduling effect: at 00:00 it runs the
\* pass with the tasks and statuses its closure captured
MidnightTick(engine) ==
    \E fault \in Faults :
      /\ running
      /\ Len(cap.tasks) > 0
      /\ MinuteOf(now) = 0
      /\ Commit(Trigger(engine, cap.tasks, Captured(cap.yes), CurrentStore, now,
                        permission, tzWest, fault))
      /\ UNCHANGED <<now, tzWest, running, tasks, taskStatuses, cap, nextId,
                     permission, shown, memos, inflight>>

\* process start: loadData() restores tasks and statuses from storage, then the
\* scheduling effect runs
AppStart(engine) ==
    \E fault \in Faults :
      /\ ~ running
      /\ running' = TRUE
      /\ cap' = Capture(tasks, taskStatuses)
      /\ Commit(SchedulingEffect(engine, tasks, taskStatuses, CurrentStore, now,
                                 permission, tzWest, fault))
      /\ RenderTasks(tasks, taskStatuses)
      /\ UNCHANGED <<now, tzWest, tasks, taskStatuses, nextId, permission, shown,
                     inflight>>

\* the process is killed: its closures and interval are gone; storage, alarms
\* and notifications stay
AppKill ==
    /\ running
    /\ running' = FALSE
    /\ cap' = Capture(<<>>, EmptyStatuses)
    /\ Unmounted
    /\ UNCHANGED <<now, tzWest, tasks, taskStatuses, nextId, permission,
                   alarms, ln, flags, lastScheduledDate, lastScheduledTime,
                   lastCheck, shown, inflight>>

\* device reboot: AlarmManager forgets the app's alarms (the app registers no
\* boot receiver that restores them); the LocalNotifications plugin restores
\* its own pending notifications
Reboot ==
    /\ running' = FALSE
    /\ alarms' = {}
    /\ cap' = Capture(<<>>, EmptyStatuses)
    /\ Unmounted
    /\ UNCHANGED <<now, tzWest, tasks, taskStatuses, nextId, permission, ln,
                   flags, lastScheduledDate, lastScheduledTime, lastCheck, shown,
                   inflight>>

\* the user enables "Alarms & reminders" in the system settings
GrantPermission ==
    /\ ~ permission
    /\ permission' = TRUE
    /\ UNCHANGED <<now, tzWest, running, tasks, taskStatuses, cap, nextId, alarms,
                   ln, flags, lastScheduledDate, lastScheduledTime, lastCheck,
                   shown, memos, inflight>>

\* the next minute the clock visits
NextSample(t) ==
    LET later == {m \in SamplePoints : m > MinuteOf(t)}
    IN  IF later = {}
        THEN At(DayOf(t) + 1, CHOOSE m \in SamplePoints : \A k \in SamplePoints : m <= k)
        ELSE At(DayOf(t), CHOOSE m \in later : \A k \in later : m <= k)

\* ExactAlarmReceiver.onReceive: manager.notify(taskId.hashCode(), ...)
Delivered(al, pending, t) ==
    {[nid |-> a.key, taskId |-> a.taskId] : a \in {x \in al : x.time <= t}}
    \cup {[nid |-> n.id, taskId |-> n.taskId] : n \in {x \in pending : x.at <= t}}

\* time passes; every alarm and notification that falls due is delivered.
\* While the app runs, the one-minute interval of the auto-mark effect fires
\* within 23:59, so that minute is not left with a task still to auto-mark.
Tick ==
    LET t == NextSample(now)
        fired == Delivered(alarms, ln, t)
    IN  /\ DayOf(t) <= LastDay
        /\ ~ (running /\ MinuteOf(now) = AutoMarkMinute /\ AutoMarkDue # {})
        /\ now' = t
        /\ alarms' = {a \in alarms : a.time > t}
        /\ ln' = {n \in ln : n.at > t}
        /\ shown' = fired
        /\ UNCHANGED <<tzWest, running, tasks, taskStatuses, cap, nextId, permission,
                       flags, lastScheduledDate, lastScheduledTime, lastCheck, memos,
                       inflight>>

---------------------------------------------------------------------------
(* Specifications                                                          *)

\* src/src/App.js linked with src/src/PushNotifications.js
Next ==
    \/ handleAddTask("local")
    \/ handleEndTask
    \/ handleRemoveTask("local")
    \/ handleSaveEdit
    \/ handleStatusChange("local")
    \/ autoMarkUncompletedTasks
    \/ MidnightTick("local")
    \/ AppStart("local")
    \/ AppKill
    \/ Reboot
    \/ GrantPermission
    \/ Tick

Spec == Init /\ [][Next]_vars

\* src/src/App.js linked with the PushNotifications.js of part_000
NextExact ==
    \/ handleAddTask("exact")
    \/ handleEndTask
    \/ handleRemoveTask("exact")
    \/ handleSaveEdit
    \/ handleStatusChange("exact")
    \/ autoMarkUncompletedTasks
    \/ MidnightTick("exact")
    \/ AppStart("exact")
    \/ AppKill
    \/ Reboot
    \/ GrantPermission
    \/ Tick

SpecExact == Init /\ [][NextExact]_vars

---------------------------------------------------------------------------
(* One batch of several tasks run through the pass of part_000 with any set *)
(* of failing calls                                                         *)

BatchTasks == 2         \* number of tasks in the batch (ids 1..BatchTasks)

BatchIds == 1..BatchTasks

\* the reminder settings of a stored task: a target time, or time-based with
\* no target time stored
BatchTimes == [isTimeBased : {TRUE}, targetTime : TargetTimes \cup {NoTime}]

\* the task lists of the batch: Daily tasks that started on the first day
BatchTaskLists ==
    {[i \in BatchIds |->
        Task(i, FirstDay, "Daily", c[i].isTimeBased, c[i].targetTime)] :
     c \in [BatchIds -> BatchTimes]}

\* the calls of a pass that may throw
BatchCalls == [id : BatchIds, call : {"getFlag", "arm", "setFlag"}]

InitBatch ==
    /\ now = At(FirstDay, 0)
    /\ tzWest \in TzOffsets
    /\ running = TRUE
    /\ tasks \in BatchTaskLists
    /\ taskStatuses \in {EmptyStatuses}
          \cup {WithStatus(EmptyStatuses, id, FirstDay, "Yes") : id \in BatchIds}
    /\ cap = Capture(tasks, taskStatuses)
    /\ nextId = BatchTasks + 1
    /\ permission \in BOOLEAN
    /\ alarms = {}
    /\ ln = {}
    /\ flags = {}
    /\ lastScheduledDate = 0
    /\ lastScheduledTime = 0
    /\ lastCheck = 0
    /\ shown = {}
    /\ Mounted(tasks, taskStatuses)
    /\ inflight = <<>>

\* triggerDailyNotificationCheck(tasks, taskStatuses) of part_000, run while
\* the calls of `fault` throw
BatchPass ==
    \E fault \in SUBSET BatchCalls :
        /\ running
        /\ Commit(Exact_triggerDailyNotificationCheck(tasks, taskStatuses,
                     CurrentStore, now, permission, tzWest, fault))
        /\ UNCHANGED <<now, tzWest, running, tasks, taskStatuses, cap, nextId,
                       permission, shown, memos, inflight>>

NextBatch ==
    \/ BatchPass
    \/ Tick
    \/ autoMarkUncompletedTasks

SpecBatch == InitBatch /\ [][NextBatch]_vars

---------------------------------------------------------------------------
(* The daily notification orchestrator of src/src/PushNotifications.js run  *)
(* on its own, on a clock fine enough to see the one-hour window            *)

\* minutes of the day this clock visits
DailyMinutes == {0, 59, 60, 480, 481, 1260, 1320, 1321, 1439}

\* the task lists: none, or one Daily task that started on the first day
DailyTaskLists == {<<>>, <<Task(1, FirstDay, "Daily", FALSE, NoTime)>>}

InitDaily ==
    /\ now = At(FirstDay, 0)
    /\ tzWest \in TzOffsets
    /\ running = TRUE
    /\ tasks \in DailyTaskLists
    /\ taskStatuses = EmptyStatuses
    /\ cap = Capture(tasks, taskStatuses)
    /\ nextId = Len(tasks) + 1
    /\ permission = TRUE
    /\ alarms = {}
    /\ ln = {}
    /\ flags = {}
    /\ lastScheduledDate = 0
    /\ lastScheduledTime = 0
    /\ lastCheck = 0
    /\ shown = {}
    /\ Mounted(tasks, taskStatuses)
    /\ inflight = <<>>

\* scheduleDailyNotifications(tasks, taskStatuses); LocalNotifications.schedule
\* may throw
DailyRun ==
    \E fault \in {NoFault, {[id |-> 0, call |-> "daily"]}} :
        /\ Commit(scheduleDailyNotifications(tasks, taskStatuses, CurrentStore, now,
                                             tzWest, fault))
        /\ UNCHANGED <<now, tzWest, running, tasks, taskStatuses, cap, nextId,
                       permission, shown, memos, inflight>>

\* time passes to a later minute; the notifications that fall due are delivered
DailyClock ==
    \E day \in FirstDay..LastDay, minute \in DailyMinutes :
        /\ At(day, minute) > now
        /\ now' = At(day, minute)
        /\ alarms' = {a \in alarms : a.time > now'}
        /\ ln' = {n \in ln : n.at > now'}
        /\ shown' = Delivered(alarms, ln, now')
        /\ UNCHANGED <<tzWest, running, tasks, taskStatuses, cap, nextId, permission,
                       flags, lastScheduledDate, lastScheduledTime, lastCheck, memos,
                       inflight>>

NextDaily ==
    \/ DailyRun
    \/ DailyClock
    \/ handleStatusChange("local")

SpecDaily == InitDaily /\ [][NextDaily]_vars

---------------------------------------------------------------------------
(* One task and its completion history on the homepage: the user marks      *)
(* today, the day ends, the next day begins                                 *)

StreakDays == 3         \* number of calendar days this clock may visit
RecentDays == 3         \* days before the first day whose records vary freely
HistoryDays == 31       \* days before the first day that carry a record
LongStart == 370        \* days before the first day the long-running task began

StreakLastDay == FirstDay + StreakDays - 1

\* the tasks: every frequency, started a month, a fortnight, two days or no
\* day ago; a Daily task ended three days ago; a Daily task begun LongStart
\* days ago
StreakTasks ==
    {Task(1, FirstDay - back, freq, FALSE, NoTime) :
        back \in {HistoryDays, 15, 2, 0}, freq \in Frequencies}
    \cup {[Task(1, FirstDay - 15, "Daily", FALSE, NoTime) EXCEPT !.endDate = FirstDay - 3]}
    \cup {Task(1, FirstDay - LongStart, "Daily", FALSE, NoTime)}

\* the record map of task 1 with status rec[d] on day d ("Unset": no key)
History(rec) ==
    [k \in {<<1, d>> : d \in {x \in DOMAIN rec : rec[x] # "Unset"}} |-> rec[k[2]]]

\* the histories: any records on the RecentDays days before the first day and
\* one filler status on the older days
RecentHistories ==
    {History([d \in (FirstDay - HistoryDays)..(FirstDay - 1) |->
                IF d >= FirstDay - RecentDays THEN recent[d] ELSE filler]) :
        recent \in [(FirstDay - RecentDays)..(FirstDay - 1) -> {"Unset", "Yes", "No"}],
        filler \in {"Unset", "Yes"}}

\* the histories of the long-running task: Yes on the n days before the first
\* day, `before` on the day before those
LongHistories ==
    {History([d \in (FirstDay - n - 1)..(FirstDay - 1) |->
                IF d >= FirstDay - n THEN "Yes" ELSE before]) :
        n \in {MaxStreakWalk - 1, MaxStreakWalk, MaxStreakWalk + 1},
        before \in {"Unset", "No"}}

InitStreak ==
    /\ now = At(FirstDay, 0)
    /\ tzWest \in TzOffsets
    /\ running = TRUE
    /\ \E task \in StreakTasks :
           /\ tasks = <<task>>
           /\ taskStatuses \in IF task.startDate = FirstDay - LongStart
                                THEN LongHistories ELSE RecentHistories
    /\ cap = Capture(tasks, taskStatuses)
    /\ nextId = 2
    /\ permission = TRUE
    /\ alarms = {}
    /\ ln = {}
    /\ flags = {}
    /\ lastScheduledDate = 0
    /\ lastScheduledTime = 0
    /\ lastCheck = 0
    /\ shown = {}
    /\ Mounted(tasks, taskStatuses)
    /\ inflight = <<>>

\* the day goes on to 23:59, and from 23:59 (where the auto-mark interval has
\* fired) to 00:00 of the next day
StreakClock ==
    LET t == IF MinuteOf(now) < AutoMarkMinute
             THEN At(DayOf(now), AutoMarkMinute)
             ELSE At(DayOf(now) + 1, 0)
    IN  /\ DayOf(t) <= StreakLastDay
        /\ ~ (running /\ MinuteOf(now) = AutoMarkMinute /\ AutoMarkDue # {})
        /\ now' = t
        /\ UNCHANGED <<tzWest, running, tasks, taskStatuses, cap, nextId, permission,
                       alarms, ln, flags, lastScheduledDate, lastScheduledTime,
                       lastCheck, shown, memos, inflight>>

NextStreak ==
    \/ handleStatusChange("local")
    \/ autoMarkUncompletedTasks
    \/ StreakClock

SpecStreak == InitStreak /\ [][NextStreak]_vars

---------------------------------------------------------------------------
(* The LocalNotifications scheduler of src/src/PushNotifications.js on the  *)
(* two tasks of the batch, with the handlers that change the task list      *)

\* the scheduling effect on mount: triggerDailyNotificationCheck(tasks,
\* taskStatuses) of src/src/PushNotifications.js
LocalPass ==
    /\ running
    /\ Commit(triggerDailyNotificationCheck(tasks, taskStatuses, CurrentStore, now,
                                            tzWest, NoFault))
    /\ UNCHANGED <<now, tzWest, running, tasks, taskStatuses, cap, nextId,
                   permission, shown, memos, inflight>>

NextLocal ==
    \/ LocalPass
    \/ handleRemoveTask("local")
    \/ handleEndTask
    \/ handleStatusChange("local")

SpecLocal == InitBatch /\ [][NextLocal]_vars

---------------------------------------------------------------------------
(* Invocations of triggerDailyNotificationCheck of part_000 interleaved at  *)
(* their awaits with one another and with handleStatusChange                *)

MaxPasses == 2          \* number of invocations of the pass

\* the task lists: one time-based Daily task, or two
RaceTaskLists ==
    {<<Task(1, FirstDay, "Daily", TRUE, 540)>>,
     <<Task(1, FirstDay, "Daily", TRUE, 540), Task(2, FirstDay, "Daily", TRUE, 600)>>}

\* the store before the first pass of the day
RaceStore == Store({}, {}, {}, 0, 0, 0)

InitRace ==
    /\ now = At(FirstDay, 0)
    /\ tzWest \in TzOffsets
    /\ running = TRUE
    /\ tasks \in RaceTaskLists
    /\ taskStatuses = EmptyStatuses
    /\ cap = Capture(tasks, taskStatuses)
    /\ nextId = Len(tasks) + 1
    /\ permission = TRUE
    /\ alarms = RaceStore.alarms
    /\ ln = RaceStore.ln
    /\ flags = RaceStore.flags
    /\ lastScheduledDate = RaceStore.lastScheduledDate
    /\ lastScheduledTime = RaceStore.lastScheduledTime
    /\ lastCheck = RaceStore.lastCheck
    /\ shown = {}
    /\ Mounted(tasks, taskStatuses)
    /\ inflight = [p \in 1..MaxPasses |-> IdleCall]

\* triggerDailyNotificationCheck(tasks, taskStatuses) is called with the tasks
\* and statuses of the current render and runs to its first await
PassStart ==
    \E p \in 1..MaxPasses :
        /\ running
        /\ inflight[p].pc = "idle"
        /\ hasUserActuallyStarted(tasks)
        /\ inflight' = [inflight EXCEPT ![p] =
               Call("clear", tasks, Capture(tasks, taskStatuses).yes, 0)]
        /\ UNCHANGED <<now, tzWest, running, tasks, taskStatuses, cap, nextId,
                       permission, alarms, ln, flags, lastScheduledDate,
                       lastScheduledTime, lastCheck, shown, memos>>

\* the call a suspended invocation awaits completes and the invocation runs to
\* its next await
PassResume ==
    \E p \in 1..MaxPasses :
        /\ inflight[p].pc \notin {"idle", "done"}
        /\ LET r == PassStep(inflight[p], CurrentStore, now, permission, tzWest)
           IN  /\ inflight' = [inflight EXCEPT ![p] = r.call]
               /\ Commit(r.store)
        /\ UNCHANGED <<now, tzWest, running, tasks, taskStatuses, cap, nextId,
                       permission, shown, memos>>

NextRace ==
    \/ PassStart
    \/ PassResume
    \/ handleStatusChange("exact")

SpecRace == InitRace /\ [][NextRace]_vars

---------------------------------------------------------------------------
(* The re-arm of part_000 at app start on the two tasks of the batch, some  *)
(* of them ended, after the process was killed or the device rebooted       *)

NextRearm ==
    \/ handleEndTask
    \/ handleStatusChange("exact")
    \/ AppKill
    \/ Reboot
    \/ AppStart("exact")

SpecRearm == InitBatch /\ [][NextRearm]_vars

---------------------------------------------------------------------------
(* The native alarm path of the v3.8 package on two tasks: the plugin arms  *)
(* and cancels, AlarmManager fires, ExactAlarmReceiver displays             *)

\* the ids of the two tasks, Date.now().toString() of their creation: two
\* short ids, and two ids whose texts have the same String.hashCode()
AlarmIdLists == {<<1, 2>>, <<1080000000, 1103729563>>}

AlarmTaskLists ==
    {[i \in 1..2 |-> Task(ids[i], FirstDay, "Daily", TRUE, 540)] :
        ids \in AlarmIdLists}

\* the instants an alarm is armed for
AlarmTimes == {At(FirstDay, m) : m \in TargetTimes}

\* the intents the receiver may be handed for the tasks: complete, or with an
\* extra missing
AlarmIntents(ts) ==
    {Intent(taskId, taskName) :
        taskId \in {<<>>} \cup {<<id>> : id \in IdsOf(ts)},
        taskName \in {<<>>} \cup {<<TaskName(id)>> : id \in IdsOf(ts)}}

InitAlarm ==
    /\ now = At(FirstDay, 0)
    /\ tzWest \in TzOffsets
    /\ running = TRUE
    /\ tasks \in AlarmTaskLists
    /\ taskStatuses = EmptyStatuses
    /\ cap = Capture(tasks, taskStatuses)
    /\ nextId = 1
    /\ permission = TRUE
    /\ alarms = {}
    /\ ln = {}
    /\ flags = {}
    /\ lastScheduledDate = 0
    /\ lastScheduledTime = 0
    /\ lastCheck = 0
    /\ shown = {}
    /\ Mounted(tasks, taskStatuses)
    /\ inflight = <<>>

\* ExactAlarmPlugin.schedule for one task
AlarmSchedule ==
    \E i \in 1..Len(tasks), time \in AlarmTimes :
        /\ time > now
        /\ alarms' = ExactAlarmPlugin_schedule(alarms, permission, time, tasks[i].id,
                                               FALSE).alarms
        /\ UNCHANGED <<now, tzWest, running, tasks, taskStatuses, cap, nextId,
                       permission, ln, flags, lastScheduledDate, lastScheduledTime,
                       lastCheck, shown, memos, inflight>>

\* ExactAlarmPlugin.cancel for one task
AlarmCancel ==
    \E i \in 1..Len(tasks) :
        /\ alarms' = ExactAlarmPlugin_cancel(alarms, tasks[i].id)
        /\ UNCHANGED <<now, tzWest, running, tasks, taskStatuses, cap, nextId,
                       permission, ln, flags, lastScheduledDate, lastScheduledTime,
                       lastCheck, shown, memos, inflight>>

\* AlarmManager fires the earliest pending alarm: its intent, with the extras
\* it was last armed with, is broadcast to ExactAlarmReceiver
AlarmFire ==
    \E a \in alarms :
        /\ \A b \in alarms : a.time <= b.time
        /\ now' = a.time
        /\ alarms' = alarms \ {a}
        /\ shown' = ExactAlarmReceiver_onReceive(shown,
                        Intent(<<a.taskId>>, <<TaskName(a.taskId)>>))
        /\ UNCHANGED <<tzWest, running, tasks, taskStatuses, cap, nextId,
                       permission, ln, flags, lastScheduledDate, lastScheduledTime,
                       lastCheck, memos, inflight>>

\* the receiver is handed an intent again, or one with an extra missing
AlarmBroadcast ==
    \E intent \in AlarmIntents(tasks) :
        /\ shown' = ExactAlarmReceiver_onReceive(shown, intent)
        /\ UNCHANGED <<now, tzWest, running, tasks, taskStatuses, cap, nextId,
                       permission, alarms, ln, flags, lastScheduledDate,
                       lastScheduledTime, lastCheck, memos, inflight>>

NextAlarm ==
    \/ AlarmSchedule
    \/ AlarmCancel
    \/ AlarmFire
    \/ AlarmBroadcast

SpecAlarm == InitAlarm /\ [][NextAlarm]_vars

---------------------------------------------------------------------------
(* The daily digest of src/src/PushNotifications.js over up to DigestTasks  *)
(* tasks with records for yesterday and today                               *)

DigestTasks == 3        \* number of tasks of the digest (ids 1..DigestTasks)

\* the kinds of task: Daily since yesterday, Daily from today, Alternate Days
\* since yesterday (due yesterday, not today)
DigestKinds ==
    {[startDate |-> FirstDay - 1, frequency |-> "Daily"],
     [startDate |-> FirstDay, frequency |-> "Daily"],
     [startDate |-> FirstDay - 1, frequency |-> "Alternate Days"]}

DigestTaskLists ==
    UNION {{[i \in 1..n |-> Task(i, kinds[i].startDate, kinds[i].frequency, FALSE, NoTime)] :
              kinds \in [1..n -> DigestKinds]} : n \in 0..DigestTasks}

\* the completion maps: any set of tasks marked Yes yesterday
DigestHistories(ts) ==
    {[k \in {<<id, FirstDay - 1>> : id \in done} |-> "Yes"] : done \in SUBSET IdsOf(ts)}

InitDigest ==
    /\ now = At(FirstDay, 0)
    /\ tzWest \in TzOffsets
    /\ running = TRUE
    /\ tasks \in DigestTaskLists
    /\ taskStatuses \in DigestHistories(tasks)
    /\ cap = Capture(tasks, taskStatuses)
    /\ nextId = Len(tasks) + 1
    /\ permission = TRUE
    /\ alarms = {}
    /\ ln = {}
    /\ flags = {}
    /\ lastScheduledDate = 0
    /\ lastScheduledTime = 0
    /\ lastCheck = 0
    /\ shown = {}
    /\ Mounted(tasks, taskStatuses)
    /\ inflight = <<>>

NextDigest ==
    \/ DailyRun
    \/ handleStatusChange("local")

SpecDigest == InitDigest /\ [][NextDigest]_vars

---------------------------------------------------------------------------
(* The occurrence evaluator of App.js on one task, over the dates of the    *)
(* first months of 2026 and every device time zone                          *)

DueFirstDate == 1       \* 2026-01-01
DueLastDate == 100      \* 2026-04-10

DueDates == DueFirstDate..DueLastDate

\* start dates: 01-01, 01-30, 01-31, 02-28, 03-01, 03-07, 03-08, 03-09
DueStarts == {1, 30, 31, 59, 60, 66, 67, 68}

\* end dates of a task that starts on `start`: none, the start date, three
\* weeks later, 04-05
DueEnds(start) == {NoDate, start, start + 21, 95}

DueTasks ==
    {[Task(1, start, freq, FALSE, NoTime) EXCEPT !.endDate = end] :
        start \in DueStarts, freq \in Frequencies, end \in UNION {DueEnds(x) : x \in DueStarts}}

InitDue ==
    /\ now = At(FirstDay, 0)
    /\ tzWest \in Zones
    /\ running = TRUE
    /\ tasks \in {<<task>> : task \in {x \in DueTasks : x.endDate \in DueEnds(x.startDate)}}
    /\ taskStatuses = EmptyStatuses
    /\ cap = Capture(tasks, taskStatuses)
    /\ nextId = 2
    /\ permission = TRUE
    /\ alarms = {}
    /\ ln = {}
    /\ flags = {}
    /\ lastScheduledDate = 0
    /\ lastScheduledTime = 0
    /\ lastCheck = 0
    /\ shown = {}
    /\ Mounted(tasks, taskStatuses)
    /\ inflight = <<>>

\* the device is taken to another time zone, or its time zone setting changes
TimeZoneChange ==
    \E zone \in Zones :
        /\ zone # tzWest
        /\ tzWest' = zone
        /\ UNCHANGED <<now, running, tasks, taskStatuses, cap, nextId, permission,
                       alarms, ln, flags, lastScheduledDate, lastScheduledTime,
                       lastCheck, shown, memos, inflight>>

NextDue ==
    \/ TimeZoneChange
    \/ handleEndTask
    \/ handleStatusChange("local")

SpecDue == InitDue /\ [][NextDue]_vars

---------------------------------------------------------------------------
(* Properties                                                              *)

\* the pending alarms of a task in the AlarmManager
AlarmsOf(al, id) == {a \in al : a.taskId = id}

\* the instants at which a reminder of the task is pending: native alarms and
\* the main LocalNotifications reminder (ids 100..199)
PendingInstants(al, pending, id) ==
    {a.time : a \in AlarmsOf(al, id)}
    \cup {n.at : n \in {x \in pending : x.taskId = id /\ x.id >= MainIdBase
                                         /\ x.id < GraceIdBase}}

\* time-based, not ended (the activeTasks rule of App.js) and not marked Yes today
ActiveUncompleted(task, st, t) ==
    /\ HasTargetTime(task)
    /\ (task.endDate = NoDate \/ task.endDate > getTodayString(t))
    /\ StatusOf(st, task.id, getTodayString(t)) # "Yes"

\* C1: at most one alarm is pending per task id in every reachable state; an
\* arm call for a task that already has a pending alarm replaces it.
C1_OneAlarmPerTask ==
    \A a \in alarms, b \in alarms : a.taskId = b.taskId => a = b

\* a pass has armed a task (re-arm, then the daily arm) and its alarm is pending
C1_Witness ==
    \E a \in alarms :
        /\ Flag("exactAlarm", a.taskId, getTodayString(now)) \in flags
        /\ a.time > now

\* C2: a task marked Yes for today has no reminder pending for today: marking
\* it disarms whatever path armed it, and no pass re-arms it before the day
\* rolls over.
C2_CompletedTaskIsDisarmed ==
    \A i \in 1..Len(tasks) :
        StatusOf(taskStatuses, tasks[i].id, getTodayString(now)) = "Yes"
        => \A x \in PendingInstants(alarms, ln, tasks[i].id) :
              DayOf(x) # getTodayString(now)

\* the state after one pass, and after a second pass with the same tasks,
\* completions and clock
PassOnce(engine) ==
    Trigger(engine, tasks, taskStatuses, CurrentStore, now, permission, tzWest,
            NoFault)
PassTwice(engine) ==
    Trigger(engine, tasks, taskStatuses, PassOnce(engine), now, permission,
            tzWest, NoFault)

C4_StartRearmsEveryTask ==
    [][(~ running /\ running')
       => \A i \in 1..Len(tasks') :
             ActiveUncompleted(tasks'[i], taskStatuses', now')
             => /\ Cardinality(PendingInstants(alarms', ln', tasks'[i].id)) = 1
                /\ \A x \in PendingInstants(alarms', ln', tasks'[i].id) : x > now'
      ]_vars

\* C5: when the arm call of a pass fails for a task, the task is left without
\* reminder and without dedup flag, and the next pass on the same day arms it.
C5_FailedArmIsRetried ==
    \A i \in 1..Len(tasks) :
      LET task == tasks[i]
          today == getTodayString(now)
          rejected == {[id |-> task.id, call |-> "arm"]}
          failed == triggerDailyNotificationCheck(tasks, taskStatuses, CurrentStore,
                                                  now, tzWest, rejected)
          retried == triggerDailyNotificationCheck(tasks, taskStatuses, failed,
                                                   now, tzWest, NoFault)
      IN  (/\ HasTargetTime(task)
           /\ Truthy(PN_isTaskValidForDate(task, today, tzWest))
           /\ StatusOf(taskStatuses, task.id, today) # "Yes"
           /\ Flag("timeTaskScheduled", task.id, today) \notin flags
           /\ lastCheck # today)
          => /\ Flag("timeTaskScheduled", task.id, today) \notin failed.flags
             /\ PendingInstants({}, failed.ln, task.id)
                   = PendingInstants({}, ln, task.id)
             /\ PendingInstants({}, retried.ln, task.id) # {}

\* C6: a pass sets a task's dedup flag only when its arm call registered an
\* alarm: whenever a flag is added, an alarm of that task is pending.
C6_FlagOnlyAfterRegisteredAlarm ==
    [][\A f \in flags' \ flags :
          f.kind = "exactAlarm" => AlarmsOf(alarms', f.id) # {}]_vars

C8_ArmedDateIsDueDate ==
    [][\A i \in 1..Len(tasks') :
          \A x \in PendingInstants(alarms', ln', tasks'[i].id)
                     \ PendingInstants(alarms, ln, tasks'[i].id) :
              Truthy(isTaskValidForDate(tasks'[i], DayOf(x), tzWest))]_vars

\* C9: no alarm, no scheduled reminder and no dedup flag is held for a task id
\* that is not in the task list (a deleted task).
C9_NothingKeptForDeletedTask ==
    /\ \A a \in alarms : a.taskId \in IdsOf(tasks)
    /\ \A n \in ln : n.taskId = 0 \/ n.taskId \in IdsOf(tasks)
    /\ \A f \in flags : f.id \in IdsOf(tasks)

\* C10: no alarm of a task with an end date is pending for an instant on a
\* date after endDate.
C10_NoAlarmBeyondEndDate ==
    \A i \in 1..Len(tasks) :
        tasks[i].endDate # NoDate
        => \A a \in AlarmsOf(alarms, tasks[i].id) : DayOf(a.time) <= tasks[i].endDate

\* C11: when handleSaveEdit changes the target time of a time-based task that
\* has an alarm pending, the step leaves exactly one alarm for the task, at the
\* next occurrence of the new target time (the alarm for the old time is gone).
C11_EditMovesAlarmToNewTime ==
    [][\A i \in 1..Len(tasks) :
          (/\ Len(tasks') = Len(tasks)
           /\ tasks'[i].id = tasks[i].id
           /\ HasTargetTime(tasks[i])
           /\ HasTargetTime(tasks'[i])
           /\ tasks'[i].targetTime # tasks[i].targetTime
           /\ AlarmsOf(alarms, tasks[i].id) # {})
          => AlarmsOf(alarms', tasks[i].id)
                = {Alarm(tasks[i].id, NextTrigger(tasks'[i].targetTime, now))}]_vars

\* C12: when a time-based task is marked Yes for today, no dedup flag of that
\* task for today is left in the store after the step.
C12_MarkYesClearsFlag ==
    [][\A i \in 1..Len(tasks) :
          (/\ HasTargetTime(tasks[i])
           /\ StatusOf(taskStatuses, tasks[i].id, getTodayString(now)) # "Yes"
           /\ StatusOf(taskStatuses', tasks[i].id, getTodayString(now)) = "Yes")
          => \A f \in flags' :
                ~ (f.id = tasks[i].id /\ f.date = getTodayString(now))]_vars

\* the state after a pass in which the calls of `fault` throw
BatchOutcome(fault) ==
    Exact_triggerDailyNotificationCheck(tasks, taskStatuses, CurrentStore, now,
                                        permission, tzWest, fault)

\* C13: whatever set of store and port calls throws during a pass, the pass
\* completes, and every eligible task none of whose own calls throws is armed
\* at the next occurrence of its target time and flagged; a time-based task
\* without target time is skipped.
C13_BatchSurvivesFailures ==
    \A fault \in SUBSET BatchCalls :
      LET after == BatchOutcome(fault)
      IN  \A i \in 1..Len(tasks) :
            LET task == tasks[i]
                today == getTodayString(now)
            IN  /\ (/\ permission
                    /\ ActiveUncompleted(task, taskStatuses, now)
                    /\ ~ Rejects(fault, task.id, "arm"))
                   => AlarmsOf(after.alarms, task.id)
                         = {Alarm(task.id, NextTrigger(task.targetTime, now))}
                /\ (/\ ActiveUncompleted(task, taskStatuses, now)
                    /\ \A call \in {"getFlag", "arm", "setFlag"} :
                          ~ Rejects(fault, task.id, call))
                   => Flag("exactAlarm", task.id, today) \in after.flags
                /\ ~ HasTargetTime(task)
                   => /\ AlarmsOf(after.alarms, task.id) = AlarmsOf(alarms, task.id)
                      /\ Flag("exactAlarm", task.id, today) \notin after.flags

\* a pass has run in which one eligible task was not armed (its arm call threw)
\* while another task of the batch was armed and flagged
C13_Witness ==
    /\ permission
    /\ \E i \in 1..Len(tasks), j \in 1..Len(tasks) :
          /\ ActiveUncompleted(tasks[i], taskStatuses, now)
          /\ Flag("exactAlarm", tasks[i].id, getTodayString(now)) \notin flags
          /\ AlarmsOf(alarms, tasks[i].id) = {}
          /\ ActiveUncompleted(tasks[j], taskStatuses, now)
          /\ Flag("exactAlarm", tasks[j].id, getTodayString(now)) \in flags
          /\ AlarmsOf(alarms, tasks[j].id) # {}

\* C14: when the window.storage read or write of a task's dedup flag throws
\* during a pass, no flag is recorded for the task, and the next trigger on the
\* same day carries the operation out (the task ends up armed and flagged).
C14_StoreFailureIsRetried ==
    \A i \in 1..Len(tasks), call \in {"getFlag", "setFlag"} :
      LET task == tasks[i]
          today == getTodayString(now)
          key == Flag("timeTaskScheduled", task.id, today)
          failed == triggerDailyNotificationCheck(tasks, taskStatuses, CurrentStore,
                       now, tzWest, {[id |-> task.id, call |-> call]})
          retried == triggerDailyNotificationCheck(tasks, taskStatuses, failed,
                                                   now, tzWest, NoFault)
      IN  (/\ HasTargetTime(task)
           /\ Truthy(PN_isTaskValidForDate(task, today, tzWest))
           /\ StatusOf(taskStatuses, task.id, today) # "Yes"
           /\ key \notin flags
           /\ lastCheck # today)
          => /\ key \notin failed.flags
             /\ key \in retried.flags
             /\ PendingInstants({}, retried.ln, task.id) # {}

\* the state after scheduleDailyNotifications runs now without failure
DailyOutcome ==
    scheduleDailyNotifications(tasks, taskStatuses, CurrentStore, now, tzWest,
                               NoFault)

\* C15: with tasks present, scheduleDailyNotifications run on the day of the
\* last successful run and less than one hour after it changes nothing; run on
\* a later day, or one hour or more after it, it proceeds: it records now as the
\* last run and leaves the morning and night notifications pending.
C15_CooldownSuppressesRerun ==
    LET today == getTodayString(now)
        recent == /\ lastScheduledDate = today
                  /\ now - lastScheduledTime < CooldownMinutes
    IN  Len(tasks) > 0
        => IF recent THEN DailyOutcome = CurrentStore
           ELSE /\ DailyOutcome.lastScheduledDate = today
                /\ DailyOutcome.lastScheduledTime = now
                /\ \A id \in {1, 2} : \E n \in DailyOutcome.ln : n.id = id /\ n.at >= now

\* a successful run today lies one hour or more back
C15_Witness ==
    /\ Len(tasks) > 0
    /\ lastScheduledDate = getTodayString(now)
    /\ now - lastScheduledTime >= CooldownMinutes

FixedMinute(id) == CASE id = 1 -> MorningMinute [] id = 2 -> NightMinute
                     [] OTHER -> WarnMinute

\* C17: after scheduleDailyNotifications every pending morning, night and
\* warning notification is at its own time of day, not before now and less
\* than a day ahead: today's occurrence unless the clock has passed it, else
\* tomorrow's.
C17_FixedTimesAreNextOccurrence ==
    \A n \in DailyOutcome.ln :
        n.id \in 1..3
        => /\ MinuteOf(n.at) = FixedMinute(n.id)
           /\ n.at >= now
           /\ n.at - now < MinutesPerDay
           /\ DayOf(n.at) = IF MinuteOf(now) <= FixedMinute(n.id)
                            THEN DayOf(now) ELSE DayOf(now) + 1

\* a run at 08:01 has put the morning notification on tomorrow and the night
\* and warning notifications on today
C17_Witness ==
    /\ lastScheduledTime = now
    /\ MinuteOf(now) = MorningMinute + 1
    /\ Notif(1, At(DayOf(now) + 1, MorningMinute), 0) \in ln
    /\ Notif(2, At(DayOf(now), NightMinute), 0) \in ln
    /\ Notif(3, At(DayOf(now), WarnMinute), 0) \in ln

\* C18: no step removes a record of the completion map, and a step changes or
\* adds only records whose date is the current local date; a status-change
\* request for another date therefore leaves the map as it was.
C18_OnlyTodayIsWritten ==
    [][/\ DOMAIN taskStatuses \subseteq DOMAIN taskStatuses'
       /\ \A k \in DOMAIN taskStatuses' :
              k[2] # getTodayString(now)
              => k \in DOMAIN taskStatuses /\ taskStatuses'[k] = taskStatuses[k]]_vars

\* on the second day a task carries yesterday's auto-resolved record next to a
\* record the user wrote today
C18_Witness ==
    \E i \in 1..Len(tasks) :
        /\ StatusOf(taskStatuses, tasks[i].id, getTodayString(now) - 1) = "No"
        /\ StatusOf(taskStatuses, tasks[i].id, getTodayString(now)) \in {"Yes", "Partly"}

\* C19: once a day has elapsed, no task that was due on it still has the
\* record Unset or Partly for it.
C19_ElapsedDayIsResolved ==
    \A i \in 1..Len(tasks) :
        LET yesterday == getTodayString(now) - 1
        IN  /\ yesterday >= FirstDay
            /\ tasks[i].startDate <= yesterday
            /\ Truthy(isTaskValidForDate(tasks[i], yesterday, tzWest))
            => StatusOf(taskStatuses, tasks[i].id, yesterday) \in {"Yes", "No"}

\* C20: when the app starts after the reminder of an open-ended Daily task has
\* fired today, the task is not marked Yes and today's dedup flag of the task
\* is recorded, the start leaves exactly one reminder of the task pending, at
\* the next occurrence of its target time.
C20_FiredTaskIsRearmedOnStart ==
    [][(~ running /\ running')
       => \A i \in 1..Len(tasks) :
              /\ ActiveUncompleted(tasks[i], taskStatuses, now)
              /\ tasks[i].frequency = "Daily"
              /\ tasks[i].endDate = NoDate
              /\ \E d \in shown : d.taskId = tasks[i].id
              /\ PendingInstants(alarms, ln, tasks[i].id) = {}
              /\ Flag("timeTaskScheduled", tasks[i].id, getTodayString(now)) \in flags
              => PendingInstants(alarms', ln', tasks[i].id)
                     = {NextTrigger(tasks[i].targetTime, now)}]_vars

\* the streak of tasks[1] on the current date
CurrentStreak == calculateCurrentStreak(tasks[1], taskStatuses, now, tzWest)

\* the streak of tasks[1] on the current date had today's record this status
StreakIfToday(status) ==
    calculateCurrentStreak(tasks[1],
                           WithStatus(taskStatuses, tasks[1].id, getTodayString(now), status),
                           now, tzWest)

\* the streak of tasks[1] counted through yesterday: the walk of the streak
\* calculation over the records before today
StreakThroughYesterday ==
    StreakWalk(tasks[1], [k \in {x \in DOMAIN taskStatuses : x[2] < getTodayString(now)}
                            |-> taskStatuses[k]],
               getTodayString(now) - 1, tzWest)

\* C21: with today's record not Yes (absent, No or Partly) the streak equals
\* the streak counted through yesterday; with today's record Yes it is one
\* more when the task is due today and the same when it is not.
C21_TodayNeverBreaksStreak ==
    /\ StatusOf(taskStatuses, tasks[1].id, getTodayString(now)) # "Yes"
       => CurrentStreak = StreakThroughYesterday
    /\ \A status \in {"No", "Partly"} : StreakIfToday(status) = StreakThroughYesterday
    /\ StreakIfToday("Yes")
           = IF Truthy(isTaskValidForDate(tasks[1], getTodayString(now), tzWest))
             THEN StreakThroughYesterday + 1
             ELSE StreakThroughYesterday

\* the task is due today, today's record is No and the streak through
\* yesterday, still shown, is at least 2
C21_Witness ==
    /\ Truthy(isTaskValidForDate(tasks[1], getTodayString(now), tzWest))
    /\ StatusOf(taskStatuses, tasks[1].id, getTodayString(now)) = "No"
    /\ CurrentStreak >= 2

\* the number of days immediately before today, counted back from yesterday,
\* whose record of tasks[1] is Yes
YesRun ==
    LET today == getTodayString(now)
        notYes == {d \in (FirstDay - LongStart - 2)..(today - 1) :
                      StatusOf(taskStatuses, tasks[1].id, d) # "Yes"}
    IN  today - 1 - (CHOOSE d \in notYes : \A e \in notYes : e <= d)

\* tasks[1] is an open-ended Daily task, today is unmarked, the YesRun days
\* before today are all days of the task and the day before them is Unset or No
DailyRunOfYes ==
    /\ tasks[1].frequency = "Daily"
    /\ tasks[1].endDate = NoDate
    /\ StatusOf(taskStatuses, tasks[1].id, getTodayString(now)) = "Unset"
    /\ tasks[1].startDate <= getTodayString(now) - YesRun
    /\ StatusOf(taskStatuses, tasks[1].id, getTodayString(now) - YesRun - 1)
           \in {"Unset", "No"}

\* C22 as stated: for every N, a Daily task marked Yes on the N days before
\* today and Unset or No on the day before those has streak N while today is
\* unmarked.
C22_StreakEqualsRunOfYes ==
    DailyRunOfYes => CurrentStreak = YesRun

\* C22: for every N up to the 365 days the streak calculation looks at, a Daily
\* task marked Yes on the N days before today and Unset or No on the day before
\* those has streak N while today is unmarked; for a longer run the streak is
\* 365.
C22_StreakEqualsRunOfYesWithinWalk ==
    DailyRunOfYes
    => CurrentStreak = IF YesRun <= MaxStreakWalk THEN YesRun ELSE MaxStreakWalk

\* a Daily task with Yes on exactly the 365 days before today, today unmarked
C22_Witness ==
    /\ DailyRunOfYes
    /\ YesRun = MaxStreakWalk
    /\ CurrentStreak = MaxStreakWalk

\* the number of consecutive most-recent days from `from` to yesterday on which
\* tasks[1] is due and whose record is Yes: the due days later than the latest
\* due day whose record is not Yes
ConsecutiveDueYes(from) ==
    LET due == {d \in from..(getTodayString(now) - 1) :
                   Truthy(isTaskValidForDate(tasks[1], d, tzWest))}
        missed == {d \in due : StatusOf(taskStatuses, tasks[1].id, d) # "Yes"}
    IN  Cardinality({d \in due : \A m \in missed : d > m})

\* the completion map with the record of every day before today on which
\* tasks[1] is not due replaced by `status`
WithNonDueRecords(status) ==
    History([d \in (FirstDay - HistoryDays)..(getTodayString(now) - 1) |->
               IF Truthy(isTaskValidForDate(tasks[1], d, tzWest))
               THEN StatusOf(taskStatuses, tasks[1].id, d)
               ELSE status])

\* the streak through yesterday is the same whatever the records of the days
\* on which tasks[1] is not due
NonDueDaysAreSkipped ==
    tasks[1].startDate >= FirstDay - HistoryDays
    => \A status \in {"Unset", "Yes", "No"} :
           StreakWalk(tasks[1], WithNonDueRecords(status), getTodayString(now) - 1,
                      tzWest) = StreakThroughYesterday

\* C23 as stated: the streak through yesterday equals the number of
\* consecutive most-recent due days, however far back, whose record is Yes,
\* whatever the records of the days on which the task is not due.
C23_StreakCountsDueDaysOnly ==
    /\ StreakThroughYesterday = ConsecutiveDueYes(FirstDay - LongStart - 2)
    /\ NonDueDaysAreSkipped

\* C23: the streak through yesterday equals the number of consecutive
\* most-recent due days among the 365 days before today whose record is Yes,
\* whatever the records of the days on which the task is not due.
C23_StreakCountsDueDaysOfWalk ==
    /\ StreakThroughYesterday = ConsecutiveDueYes(getTodayString(now) - MaxStreakWalk)
    /\ NonDueDaysAreSkipped

\* a Weekly task with a streak of two or more across days on which it is not
\* due, the day before yesterday among them with the record No
C23_Witness ==
    /\ tasks[1].frequency = "Weekly"
    /\ StreakThroughYesterday >= 2
    /\ ~ Truthy(isTaskValidForDate(tasks[1], getTodayString(now) - 2, tzWest))
    /\ StatusOf(taskStatuses, tasks[1].id, getTodayString(now) - 2) = "No"

\* C24: while the app runs, the streak the homepage shows for each task it
\* lists equals calculateCurrentStreak of the current task, the current
\* completion records and the current date.
C24_ShownStreakIsCurrent ==
    running
    => \A i \in 1..Len(activeTasks) :
           activeTasks[i].id \in IdsOf(tasks)
           => homepageTaskStreaks[activeTasks[i].id]
                  = calculateCurrentStreak(TaskById(tasks, activeTasks[i].id),
                                           taskStatuses, now, tzWest)

\* isDue of tasks[1] on date d, on this device
IsDue(d) == Truthy(isTaskValidForDate(tasks[1], d, tzWest))

\* date d lies inside the range of tasks[1]
InRange(d) ==
    /\ d >= tasks[1].startDate
    /\ tasks[1].endDate = NoDate \/ d <= tasks[1].endDate

\* C25: isTaskValidForDate is false for every date before startDate and, when
\* the task has an end date, for every date after it, for every frequency.
C25_NotDueOutsideRange ==
    \A d \in DueDates : ~ InRange(d) => isTaskValidForDate(tasks[1], d, tzWest) = "false"

\* a task with an end date before the last date looked at, due on its end date
C25_Witness ==
    /\ tasks[1].endDate # NoDate
    /\ tasks[1].endDate < DueLastDate
    /\ tasks[1].endDate > tasks[1].startDate
    /\ IsDue(tasks[1].endDate)

\* C26: a Daily task is due on every date from startDate to endDate inclusive,
\* and on every date from startDate on when it has no end date.
C26_DailyDueOnEveryDayOfRange ==
    tasks[1].frequency = "Daily"
    => \A d \in DueDates : InRange(d) => isTaskValidForDate(tasks[1], d, tzWest) = "true"

\* a Daily task with an end date later than its start date, west of UTC
C26_Witness ==
    /\ tasks[1].frequency = "Daily"
    /\ tasks[1].endDate > tasks[1].startDate
    /\ tzWest = 1
    /\ IsDue(tasks[1].endDate)

\* C27: inside the range, a Weekly task is due on date d iff the number of
\* calendar days from startDate to d is a multiple of 7, an Alternate Days task
\* iff it is a multiple of 2.
C27_WeeklyAndAlternateByOffset ==
    \A d \in DueDates :
        InRange(d)
        => /\ tasks[1].frequency = "Weekly"
              => (IsDue(d) <=> (d - tasks[1].startDate) % 7 = 0)
           /\ tasks[1].frequency = "Alternate Days"
              => (IsDue(d) <=> (d - tasks[1].startDate) % 2 = 0)

\* C28: inside the range, a Monthly task is due on date d iff the day of the
\* month of d is that of startDate (so on no date of a month without that day).
C28_MonthlyBySameDayOfMonth ==
    tasks[1].frequency = "Monthly"
    => \A d \in DueDates :
           InRange(d) => (IsDue(d) <=> DayInMonth(d, 1) = DayInMonth(tasks[1].startDate, 1))

\* C29: for every date, isTaskValidForDate of tasks[1] gives on this device
\* what it gives on a device in any other time zone.
C29_SameResultInEveryZone ==
    \A d \in DueDates, zone \in Zones :
        Truthy(isTaskValidForDate(tasks[1], d, zone)) <=> IsDue(d)

\* the title the table of morning messages gives for these statistics, each
\* row with its full condition
MorningRow(yesterdayTotal, yesterdayCompleted, todayTotal) ==
    CASE yesterdayTotal = 0 /\ todayTotal = 0 -> "A Fresh Start Awaits"
      [] yesterdayTotal = 0 /\ todayTotal > 0 -> "Your Tasks Await"
      [] yesterdayTotal > 0 /\ yesterdayCompleted = 0 -> "Yesterday Slipped"
      [] yesterdayTotal > 0 /\ yesterdayCompleted = yesterdayTotal -> "Yesterday Was Strong"
      [] OTHER -> "Progress Made"

\* the message has the title of its row and, unless it is the fresh start,
\* ends its numbers with today's task count
MorningMessageFollowsTable(msg, yesterdayTotal, yesterdayCompleted, todayTotal) ==
    /\ msg.title = MorningRow(yesterdayTotal, yesterdayCompleted, todayTotal)
    /\ msg.title # "A Fresh Start Awaits"
       => /\ Len(msg.numbers) > 0
          /\ msg.numbers[Len(msg.numbers)] = todayTotal

\* C30: for every pair of statistics (completed <= total, up to DigestTasks
\* tasks), and for the statistics of the current tasks and records, the
\* morning message is that of the first matching row of the table and, in the
\* last four rows, states today's task count.
C30_MorningMessageByFirstMatchingRow ==
    /\ \A yT \in 0..DigestTasks, tT \in 0..DigestTasks :
           \A yC \in 0..yT, tC \in 0..tT :
               MorningMessageFollowsTable(
                   generateMorningMessage(
                       [totalTasks |-> yT, completedTasks |-> yC, pendingTasks |-> yT - yC],
                       [totalTasks |-> tT, completedTasks |-> tC, pendingTasks |-> tT - tC]),
                   yT, yC, tT)
    /\ LET y == calculateTaskStats(tasks, taskStatuses, getYesterdayString(now), tzWest)
           t == calculateTaskStats(tasks, taskStatuses, getTodayString(now), tzWest)
       IN  MorningMessageFollowsTable(MorningMessage(tasks, taskStatuses, now, tzWest),
                                      y.totalTasks, y.completedTasks, t.totalTasks)

\* three tasks were due yesterday and none completed, two are due today: the
\* morning message is 'Yesterday Slipped' and mentions 2 tasks
C30_Witness ==
    /\ calculateTaskStats(tasks, taskStatuses, getYesterdayString(now), tzWest).totalTasks = 3
    /\ calculateTaskStats(tasks, taskStatuses, getYesterdayString(now), tzWest).completedTasks = 0
    /\ calculateTaskStats(tasks, taskStatuses, getTodayString(now), tzWest).totalTasks = 2
    /\ MorningMessage(tasks, taskStatuses, now, tzWest) = Message("Yesterday Slipped", <<2>>)
    /\ lastScheduledDate = getTodayString(now)

\* the tasks due today (isTaskValidForDate of App.js) and not marked Yes
PendingToday ==
    {id \in IdsOf(tasks) :
        /\ Truthy(isTaskValidForDate(TaskById(tasks, id), getTodayString(now), tzWest))
        /\ StatusOf(taskStatuses, id, getTodayString(now)) # "Yes"}

\* a step in which scheduleDailyNotifications went through
DailyPassRan ==
    /\ lastScheduledDate' = getTodayString(now)
    /\ lastScheduledTime' = now
    /\ <<lastScheduledDate, lastScheduledTime>> # <<lastScheduledDate', lastScheduledTime'>>

\* C31: a daily pass that goes through leaves the streak warning (id 3)
\* pending iff at least one task due today is not marked Yes, and then the
\* warning it composes is the singular text for one pending task and the
\* plural text with the count otherwise.
C31_WarningIffPending ==
    [][DailyPassRan
       => LET pending == Cardinality(PendingToday)
              composed == StreakWarnings(calculateTaskStats(tasks, taskStatuses,
                                                            getTodayString(now), tzWest))
          IN  /\ (\E n \in ln' : n.id = 3) <=> pending > 0
              /\ composed = IF pending = 0 THEN {}
                            ELSE IF pending = 1
                            THEN {Message("One Task Remaining", <<>>)}
                            ELSE {Message("Tasks Pending", <<pending>>)}]_vars

\* a pass went through with two of three due tasks still pending: the warning
\* is scheduled
C31_Witness ==
    /\ lastScheduledDate = getTodayString(now)
    /\ lastScheduledTime = now
    /\ Cardinality(PendingToday) = 2
    /\ Len(tasks) = 3
    /\ \E n \in ln : n.id = 3

\* the streak warnings (id 3) that fall due in this step of the clock
WarningsDelivered == {n \in ln : n.id = 3 /\ now' > now /\ n.at <= now'}

\* the tasks due on the date and not marked Yes for it
PendingOn(date) ==
    {id \in IdsOf(tasks) :
        /\ Truthy(isTaskValidForDate(TaskById(tasks, id), date, tzWest))
        /\ StatusOf(taskStatuses, id, date) # "Yes"}

\* C32: the streak warning is delivered only when, at that time, at least one
\* task due on the day of the delivery is not marked Yes.
C32_WarningFiresOnlyIfPending ==
    [][\A n \in WarningsDelivered : PendingOn(getTodayString(n.at)) # {}]_vars

\* the displayed reminders of a task
RemindersOf(displayed, taskId) == {n \in displayed : n.taskId = taskId}

\* with an extra missing the handler displays nothing; with both extras, a
\* first invocation leaves one reminder of the task and a second changes
\* nothing
IdempotentOutcome(displayed, intent, once, twice) ==
    IF intent.taskId = <<>> \/ intent.taskName = <<>>
    THEN once = displayed
    ELSE /\ Cardinality(RemindersOf(once, intent.taskId[1])) = 1
         /\ twice = once
         /\ Cardinality(RemindersOf(twice, intent.taskId[1])) = 1

\* the receiver of part_004 invoked once and twice with the same intent
ReceiverIsIdempotent(displayed, intent) ==
    LET once == ExactAlarmReceiver_onReceive(displayed, intent)
    IN  IdempotentOutcome(displayed, intent, once,
                          ExactAlarmReceiver_onReceive(once, intent))

\* the receiver of ExactAlarmPlugin.java invoked once and twice with the same
\* intent
PluginIsIdempotent(displayed, intent) ==
    LET once == ExactAlarmPlugin_onReceive(displayed, intent)
    IN  IdempotentOutcome(displayed, intent, once,
                          ExactAlarmPlugin_onReceive(once, intent))

\* what the receiver of ExactAlarmPlugin.java displays after up to two
\* invocations
PluginDisplays(ts) ==
    LET first == {ExactAlarmPlugin_onReceive({}, i) : i \in AlarmIntents(ts)}
    IN  first \cup {ExactAlarmPlugin_onReceive(d, i) : d \in first, i \in AlarmIntents(ts)}

\* C33: on whatever is displayed, the alarm handler (of part_004 and of
\* ExactAlarmPlugin.java) invoked with a taskId and a taskName leaves exactly
\* one reminder of that task, invoked a second time with the same intent it
\* changes nothing, and with a missing taskId or taskName it displays nothing;
\* no task ever has two reminders displayed.
C33_HandlerIsIdempotent ==
    /\ \A intent \in AlarmIntents(tasks) :
           /\ ReceiverIsIdempotent(shown, intent)
           /\ \A displayed \in PluginDisplays(tasks) :
                  PluginIsIdempotent(displayed, intent)
    /\ \A id \in IdsOf(tasks) : Cardinality(RemindersOf(shown, id)) <= 1

\* both tasks fired, the second one twice: one reminder each
C33_Witness ==
    /\ alarms = {}
    /\ now = At(FirstDay, 600)
    /\ Cardinality(shown) = 2
    /\ \A id \in IdsOf(tasks) : Cardinality(RemindersOf(shown, id)) = 1

\* the tasks whose pending alarm or displayed reminder changes in this step
TasksTouched ==
    {id \in IdsOf(tasks) :
        \/ {a \in alarms : a.taskId = id} # {a \in alarms' : a.taskId = id}
        \/ RemindersOf(shown, id) # RemindersOf(shown', id)}

\* C34: arming, firing or cancelling the alarm of one task changes the pending
\* alarm and the displayed reminder of no other task.
C34_TasksDoNotInterfere ==
    [][Cardinality(TasksTouched) <= 1]_vars

\* the pending main and grace reminders of a task
TimeBasedPending(pending, taskId) ==
    {n \in pending : n.taskId = taskId /\ n.id >= MainIdBase}

\* the tasks marked Yes for today in this step
MarkedYes ==
    {id \in IdsOf(tasks) :
        /\ StatusOf(taskStatuses, id, getTodayString(now)) # "Yes"
        /\ StatusOf(taskStatuses', id, getTodayString(now)) = "Yes"}

\* a pass over the time-based tasks run now with no call rejected leaves,
\* for every main reminder it arms, the grace reminder of the task pending 30
\* minutes after it
GraceFollowsMain ==
    LET armed == scheduleTimeBasedNotifications(tasks, taskStatuses, CurrentStore,
                                                now, tzWest, NoFault).ln
    IN  \A n \in armed \ ln :
            (n.id >= MainIdBase /\ n.id < GraceIdBase)
            => \E g \in armed : /\ g.id >= GraceIdBase
                                /\ g.taskId = n.taskId
                                /\ g.at = n.at + GraceMinutes

\* C35: every main reminder a pass arms has its task's grace reminder 30
\* minutes after it, and a step that marks a task Yes leaves no main or grace reminder
\* of that task pending and changes no reminder of another task.
C35_CancelHitsOwnReminders ==
    /\ []GraceFollowsMain
    /\ [][\A id \in MarkedYes :
            /\ TimeBasedPending(ln', id) = {}
            /\ \A other \in IdsOf(tasks) \ {id} :
                   TimeBasedPending(ln', other) = TimeBasedPending(ln, other)]_vars

\* no invocation of the pass is suspended
PassesFinished == \A p \in 1..MaxPasses : inflight[p].pc \in {"idle", "done"}

\* C36: once the passes and the marking have finished, a task marked Yes for
\* today has no alarm pending for today.
C36_CompletedTaskStaysDisarmed ==
    PassesFinished
    => \A id \in IdsOf(tasks) :
           StatusOf(taskStatuses, id, getTodayString(now)) = "Yes"
           => ~ \E a \in alarms : /\ a.taskId = id
                                  /\ getTodayString(a.time) = getTodayString(now)

\* C37: with the task list and statuses unchanged, once one or two passes,
\* interleaved in any way at their awaits, have finished, the alarms, the
\* notifications, the flags and the last-scheduled record are those a single
\* uninterrupted pass leaves.
C37_ConcurrentPassesEqualOnePass ==
    (/\ PassesFinished
     /\ \E p \in 1..MaxPasses : inflight[p].pc = "done"
     /\ taskStatuses = EmptyStatuses)
    => CurrentStore = Exact_triggerDailyNotificationCheck(tasks, taskStatuses,
                          RaceStore, now, permission, tzWest, NoFault)

\* two passes have finished on two tasks, both armed, the daily notifications
\* pending once each
C37_Witness ==
    /\ \A p \in 1..MaxPasses : inflight[p].pc = "done"
    /\ taskStatuses = EmptyStatuses
    /\ Len(tasks) = 2
    /\ Cardinality(alarms) = 2
    /\ Cardinality(ln) = 3

\* the alarms the defensive re-arm leaves when none is pending and no call is
\* rejected
Rearmed ==
    rescheduleExactAlarms(tasks, taskStatuses, [CurrentStore EXCEPT !.alarms = {}],
                          now, permission, NoFault).alarms

\* the time-based tasks due today, not marked Yes, whose target time is still
\* to come
DueForAlarmToday ==
    {i \in 1..Len(tasks) :
        /\ HasTargetTime(tasks[i])
        /\ Truthy(isTaskValidForDate(tasks[i], getTodayString(now), tzWest))
        /\ StatusOf(taskStatuses, tasks[i].id, getTodayString(now)) # "Yes"
        /\ At(getTodayString(now), tasks[i].targetTime) > now}

\* C38: with the permission granted, the defensive re-arm arms for today every
\* time-based task that is due today (endDate today included), is not marked
\* Yes and has its target time still to come.
C38_RearmIncludesLastDay ==
    permission
    => \A i \in DueForAlarmToday :
           \E a \in Rearmed : /\ a.taskId = tasks[i].id
                              /\ a.time = At(getTodayString(now), tasks[i].targetTime)

\* C39: the walk of calculateCurrentStreak examines at most 365 past days, the
\* streak is an integer from 0 to 366 that counts examined days and today
\* only, it is 0 for a task without a 'Yes' record and 0 for a missing task.
C39_StreakIsBounded ==
    LET examined == StreakWalkExamined(tasks[1], taskStatuses,
                                       getTodayString(now) - 1, tzWest)
    IN  /\ Cardinality(examined) <= MaxStreakWalk
        /\ CurrentStreak \in 0..(MaxStreakWalk + 1)
        /\ CurrentStreak <= Cardinality(examined) + 1
        /\ (\A k \in DOMAIN taskStatuses : taskStatuses[k] # "Yes") => CurrentStreak = 0
        /\ calculateCurrentStreak(NoTask, taskStatuses, now, tzWest) = 0

\* the long-running task has 'Yes' on more than 365 past days and on today:
\* the streak is 366
C39_Witness ==
    /\ tasks[1].startDate = FirstDay - LongStart
    /\ StatusOf(taskStatuses, 1, getTodayString(now)) = "Yes"
    /\ CurrentStreak = MaxStreakWalk + 1

\* the three evaluators give the same due / not-due answer for the task on d
EvaluatorsAgree(d) ==
    /\ Truthy(isTaskValidForDate(tasks[1], d, tzWest))
         <=> Truthy(PN_isTaskValidForDate(tasks[1], d, tzWest))
    /\ Truthy(isTaskValidForDate(tasks[1], d, tzWest))
         <=> Truthy(StatsValid(tasks[1], d, tzWest))

\* C40: isTaskValidForDate of App.js, isTaskValidForDate of PushNotifications.js
\* and the filter of calculateTaskStats give the same due / not-due answer for
\* the task on every date, in the device's time zone.
C40_EvaluatorsAgree == \A d \in DueDates : EvaluatorsAgree(d)

\* a Weekly task with an end date, west of UTC with daylight saving: due on its
\* last day and not due the day after, by all three evaluators
C40_Witness ==
    /\ tasks[1].frequency = "Weekly"
    /\ tasks[1].endDate = tasks[1].startDate + 21
    /\ tzWest = 3
    /\ Truthy(StatsValid(tasks[1], tasks[1].endDate, tzWest))
    /\ Truthy(PN_isTaskValidForDate(tasks[1], tasks[1].endDate, tzWest))
    /\ ~ Truthy(StatsValid(tasks[1], tasks[1].endDate + 7, tzWest))

=============================================================================
